---- MODULE Spec2Model ----
(***************************************************************************)
(* Model of jsalchemy_auth: the contextual authorization engine.           *)
(*                                                                         *)
(* The persisted tables (roles, permissions, roles_permissions,            *)
(* rolegrants, memberships, user groups) and the action registry are the   *)
(* state; the facade operations of Auth are the actions.  The checker      *)
(* algebra (Path, Owner, Group, Global, Or, And, Not), the traversal       *)
(* engine and the query rewriter are operators over that state, written    *)
(* after the Python they model.                                            *)
(*                                                                         *)
(* Python values:  None / SQL NULL is Null; a Context is [model, id]; a    *)
(* ContextSet is [model, ids] with ids a tuple; an exception escaping a    *)
(* call is a value whose model/kind names the exception class.             *)
(***************************************************************************)
EXTENDS Integers, Sequences, FiniteSets, Bags, TLC

VARIABLES
    usergroups,       \* group_model rows: id -> [owner_id, is_personal]
    membership,       \* memberships rows: <<usergroup_id, user_id>>
    role,             \* role_model rows: name -> tables whitelist (set, {} = unset)
    permission,       \* permission_model rows: name -> is_global
    role_permission,  \* roles_permissions rows: <<role, permission>>
    rolegrant,        \* rolegrants rows (no key, hence a bag):
                      \*   <<usergroup_id, role, context_id, context_table>>
    actions,          \* Auth.actions: model name -> (action -> checker)
    ret,              \* outcome of the last facade call
    request,          \* per-request cache tier: key -> value
    redis,            \* shared cache tier: key -> blob
    shared,           \* whether the calls share one ContextManager (its
                      \*   request scope and its redis); FALSE: every call
                      \*   runs under a fresh one
    warm,             \* history: the keys of the entries the last step
                      \*   removed from the per-request tier and, when it
                      \*   emptied the tiers, what the reads gave just before
    tasks,            \* concurrent requests, each with a session of its own:
                      \*   task -> [op, pc, row, pending, request, began,
                      \*   observed]
    called,           \* history: the facade operation called last
    allowed           \* history: the <<user, action, record>> can() allowed
                      \*   just before the call that last stored a grant

vars == <<usergroups, membership, role, permission, role_permission,
          rolegrant, actions, request, redis, shared, warm, ret, called,
          allowed, tasks>>

-----------------------------------------------------------------------------
(* Bounds *)

MaxGrants == 2        \* rows the rolegrants table may hold
MaxGroups == 4        \* rows the user group table may hold

-----------------------------------------------------------------------------
(* Python / SQL scalars *)

Null == -1

Truthy(v) == v # Null /\ v # 0

\* F of the value of v, v worked out once
Let(v, F(_)) == CHOOSE r \in {F(x) : x \in {v}} : TRUE

Max(S) == CHOOSE m \in S : \A n \in S : n <= m

Min(S) == CHOOSE m \in S : \A n \in S : m <= n

RECURSIVE SortedSeq(_)
SortedSeq(S) == Let(S, LAMBDA v : IF v = {} THEN <<>>
                                   ELSE <<Min(v)>> \o SortedSeq(v \ {Min(v)}))

Range(s) == {s[i] : i \in DOMAIN s}

RECURSIVE Flatten(_)
Flatten(ss) == Let(ss, LAMBDA v : IF v = <<>> THEN <<>>
                                  ELSE Head(v) \o Flatten(Tail(v)))

RECURSIVE Dedup(_)
Dedup(s) == IF s = <<>> THEN <<>>
            ELSE Let(Dedup(SubSeq(s, 1, Len(s) - 1)),
                     LAMBDA d : IF s[Len(s)] \in Range(d) THEN d
                                ELSE Append(d, s[Len(s)]))

-----------------------------------------------------------------------------
(* The mapped schema: the geo scenario of the test suite                   *)
(* (Country 1->* Department 1->* City) with its owner columns, and the     *)
(* Folder of its file system scenario, a tree through parent / children.   *)

Models == {"Country", "Department", "City", "Folder"}

tablename(M) == CASE M = "Country" -> "country"
                  [] M = "Department" -> "department"
                  [] M = "City" -> "city"
                  [] M = "Folder" -> "folders"
                  [] OTHER -> "global"

TableOrder == <<"city", "country", "department", "folders", "global">>

TableIdx(t) == CHOOSE i \in DOMAIN TableOrder : TableOrder[i] = t

Tables == {tablename(M) : M \in Models}

\* mapper.relationships of each model: key -> [target, direction, fk, back]
relationships(M) ==
    CASE M = "City" ->
           [k \in {"department"} |->
              [target |-> "Department", direction |-> "MANYTOONE",
               fk |-> "department_id", back_populates |-> "cities"]]
      [] M = "Department" ->
           [k \in {"country", "cities"} |->
              IF k = "country"
              THEN [target |-> "Country", direction |-> "MANYTOONE",
                    fk |-> "country_id", back_populates |-> "departments"]
              ELSE [target |-> "City", direction |-> "ONETOMANY",
                    fk |-> "department_id", back_populates |-> "department"]]
      [] M = "Country" ->
           [k \in {"departments"} |->
              [target |-> "Department", direction |-> "ONETOMANY",
               fk |-> "country_id", back_populates |-> "country"]]
      [] M = "Folder" ->
           [k \in {"parent", "children"} |->
              IF k = "parent"
              THEN [target |-> "Folder", direction |-> "MANYTOONE",
                    fk |-> "parent_id", back_populates |-> "children"]
              ELSE [target |-> "Folder", direction |-> "ONETOMANY",
                    fk |-> "parent_id", back_populates |-> "parent"]]
      [] OTHER -> <<>>

\* mapper.c of each model
columns(M) ==
    CASE M = "City" -> {"id", "mayor_id", "department_id"}
      [] M = "Department" -> {"id", "president_id", "country_id"}
      [] M = "Country" -> {"id", "president_id"}
      [] M = "Folder" -> {"id", "parent_id", "owner_id"}
      [] OTHER -> {}

\* primary keys stored in each table
RowIds(M) == CASE M = "City" -> {1, 2, 3}
               [] M = "Department" -> {1, 2}
               [] M = "Country" -> {1, 2}
               [] M = "Folder" -> {1, 2, 3, 4}
               [] OTHER -> {}

\* column values of the stored rows
Col(M, c, i) ==
    IF c = "id" THEN i
    ELSE CASE M = "City" /\ c = "department_id" ->
                (CASE i = 1 -> 1 [] i = 2 -> 2 [] OTHER -> Null)
           [] M = "City" /\ c = "mayor_id" ->
                (CASE i = 1 -> 1 [] i = 2 -> 2 [] OTHER -> Null)
           [] M = "Department" /\ c = "country_id" ->
                (CASE i = 1 -> 1 [] i = 2 -> 2 [] OTHER -> Null)
           [] M = "Department" /\ c = "president_id" ->
                (CASE i = 1 -> 2 [] OTHER -> Null)
           [] M = "Country" /\ c = "president_id" ->
                (CASE i = 2 -> 1 [] OTHER -> Null)
              \* home (1) holds alice (2) and bob (3); Desktop (4) is in alice
           [] M = "Folder" /\ c = "parent_id" ->
                (CASE i = 2 -> 1 [] i = 3 -> 1 [] i = 4 -> 2 [] OTHER -> Null)
           [] M = "Folder" /\ c = "owner_id" ->
                (CASE i = 2 -> 1 [] i = 3 -> 2 [] i = 4 -> 1 [] OTHER -> 3)
           [] OTHER -> Null

Users == {1, 2}       \* alice = 1, bob = 2

\* the propagation schema handed to Auth(...)
propagation_schema ==
    [m \in {"Country", "Department"} |->
        IF m = "Country" THEN {"departments"} ELSE {"cities"}]

-----------------------------------------------------------------------------
(* Contexts *)

Context(model, id) == [model |-> model, id |-> id]

ContextSet(model, ids) == [model |-> model, ids |-> ids]

GLOBAL_CONTEXT == Context("None", 0)

table(context) == tablename(context.model)

to_class(t) == IF t = "global" THEN "None"
               ELSE CHOOSE M \in Models : tablename(M) = t

\* the value None where a ContextSet or a tuple is expected
None == [model |-> "None", ids |-> <<>>]

\* an exception of class exc escaping where such a value is expected
Raise(exc) == [model |-> exc, ids |-> <<>>]

Exceptions == {"AttributeError", "TypeError", "ValueError", "KeyError",
               "NotImplementedError", "UnboundLocalError",
               "ArgumentError", "PermissionGrantError"}

IsRaise(v) == v.model \in Exceptions

\* the unfolding of a loop ran out of fuel: the call does not return
Aborts(v) == IsRaise(v) \/ v.model = "Diverges"

-----------------------------------------------------------------------------
(* Path trees *)

AttrOrder == <<"children", "cities", "country", "department", "departments",
               "parent", "department_id", "country_id", "id", "mayor_id",
               "owner_id", "parent_id", "president_id", "">>

AttrIdx(a) == CHOOSE i \in DOMAIN AttrOrder : AttrOrder[i] = a

\* common_path: group the split paths by first element and fold a
\* single-child subtree into a dotted key; None and {} are both <<>>
RECURSIVE common_path(_)
common_path(paths) ==
    IF paths = {} \/ \A p \in paths : p = <<>> THEN <<>>
    ELSE LET ne == {p \in paths : p # <<>>}
             keys == {Head(p) : p \in ne}
             grouped == [k \in keys |->
                           common_path({Tail(p) : p \in {q \in ne : Head(q) = k}})]
             fold(k) == grouped[k] # <<>> /\ Cardinality(DOMAIN grouped[k]) = 1
             only(k) == CHOOSE s \in DOMAIN grouped[k] : TRUE
             newkey(k) == IF fold(k) THEN <<k>> \o only(k) ELSE <<k>>
         IN  [s \in {newkey(k) : k \in keys} |->
                IF fold(s[1]) THEN grouped[s[1]][only(s[1])] ELSE grouped[s[1]]]

treefy_paths(paths) == common_path(paths)

\* iteration order of the dict built by common_path: the keys left alone,
\* sorted, then the folded keys in the order they were folded
RECURSIVE KeysBy(_)
KeysBy(ks) ==
    IF ks = {} THEN <<>>
    ELSE LET k == CHOOSE x \in ks : \A y \in ks : AttrIdx(x[1]) <= AttrIdx(y[1])
         IN  <<k>> \o KeysBy(ks \ {k})

items(tree) == KeysBy({k \in DOMAIN tree : Len(k) = 1})
               \o KeysBy({k \in DOMAIN tree : Len(k) > 1})

RECURSIVE all_paths(_)
all_paths(tree) ==
    LET one(key) == <<key>> \o
                    (IF tree[key] # <<>>
                     THEN LET sub == all_paths(tree[key])
                          IN  [i \in DOMAIN sub |-> key \o sub[i]]
                     ELSE <<>>)
        ks == items(tree)
    IN  Flatten([i \in DOMAIN ks |-> one(ks[i])])

-----------------------------------------------------------------------------
(* Checkers *)

Checker(kind, perm, paths, on, checkers) ==
    [kind |-> kind, permission |-> perm, paths |-> paths, on |-> on,
     checkers |-> checkers]

Path(perm, paths) == Checker("Path", perm, treefy_paths(paths), <<>>, <<>>)

Owner(on) == Checker("Owner", "", <<>>, on, <<>>)

Group(on) == Checker("Group", "", <<>>, on, <<>>)

Global(perm) == Checker("Global", perm, <<>>, <<>>, <<>>)

Or(cs) == Checker("Or", "", <<>>, <<>>, cs)

And(cs) == Checker("And", "", <<>>, <<>>, cs)

Not(c) == Checker("Not", "", <<>>, <<>>, <<c>>)

Actions == {"read", "write", "manage", "own"}

\* the registry handed to Auth(actions=...); what it leaves out is left to
\* the synthesized default
InitActions ==
    [m \in Models |->
       CASE m = "City" ->
              [a \in Actions |->
                 CASE a = "read" -> Path("read", {<<"department">>})
                   [] a = "write" -> Path("write", {<<"department", "country">>})
                   [] a = "manage" ->
                        Or(<<Owner(<<"department", "president_id">>),
                             Path("read", {<<"department">>,
                                           <<"department", "country">>})>>)
                   [] a = "own" -> Owner(<<"department", "president_id">>)]
         [] m = "Department" ->
              [a \in {"read", "manage"} |->
                 IF a = "read" THEN Path("read", {<<"country">>})
                 ELSE Group(<<"president_id">>)]
         [] m = "Country" ->
              [a \in Actions |->
                 CASE a = "read" -> Path("read", {})
                   [] a = "write" -> Or(<<Global("write"), Not(Path("write", {}))>>)
                   [] a = "manage" -> And(<<Global("read"), Path("read", {})>>)
                   [] a = "own" -> Owner(<<"president_id">>)]
         [] m = "Folder" ->
              [a \in {"read", "own"} |->
                 IF a = "read" THEN Path("read", {<<"parent">>})
                 ELSE Owner(<<"owner_id">>)]]

-----------------------------------------------------------------------------
(* Grant store: reads *)

\* marshal.dumps / marshal.loads
dumps(x) == <<"marshal", x>>

loads(blob) == blob[2]

_get_role(name) == IF name \in DOMAIN role THEN name ELSE "None"

_user_groups(user_id) == {m[1] : m \in {x \in membership : x[2] = user_id}}

\* _contextual_roles as it would be were the context table not compared
_contextual_roles_by_id(group_id, context) ==
    {x[2] : x \in {q \in BagToSet(rolegrant) :
                     q[1] = group_id /\ q[3] = context.id}}

\* the cache keys of the decorated functions: the function and the values
\* of the argument paths named in its decorators
KeyRoles(group_id, context) ==
    <<"_contextual_roles", group_id, context.id, table(context)>>

\* what the function of a key computes from the database: its SELECT
Body(k) ==
    CASE k[1] = "_contextual_roles" ->
           {x[2] : x \in {q \in BagToSet(rolegrant) :
                            q[1] = k[2] /\ q[3] = k[3] /\ q[4] = k[4]}}
         \* grouped by permission name
      [] k[1] = "_perms_to_roles" ->
           [p \in {rp[2] : rp \in role_permission} |->
               {rp[1] : rp \in {x \in role_permission : x[2] = p}}]
      [] k[1] = "_global_permissions" ->
           {p \in DOMAIN permission : permission[p]}

\* @request_cache over @redis_cache: the per-request tier, then the shared
\* tier, then the function itself
redis_cache(k) == IF k \in DOMAIN redis THEN loads(redis[k]) ELSE Body(k)

request_cache(k) == IF k \in DOMAIN request THEN request[k] ELSE redis_cache(k)

\* the tiers once the functions of the keys in K have been awaited: what
\* was found is kept, what was computed is written to both
request_after(K) ==
    [k \in DOMAIN request \cup K |->
        IF k \in DOMAIN request THEN request[k] ELSE redis_cache(k)]

redis_after(K) ==
    [k \in DOMAIN redis \cup (K \ DOMAIN request) |->
        IF k \in DOMAIN redis THEN redis[k] ELSE dumps(Body(k))]

\* fn.discard(key) and fn.discard_all(): the entries leave both tiers
discard(tier, K) == [k \in DOMAIN tier \ K |-> tier[k]]

discard_all(fn) == {k \in DOMAIN request \cup DOMAIN redis : k[1] = fn}

_contextual_roles(group_id, context) == request_cache(KeyRoles(group_id, context))

_perms_to_roles == request_cache(<<"_perms_to_roles">>)

_resolve_permission(permission_name) ==
    IF permission_name \notin DOMAIN _perms_to_roles THEN {}
    ELSE _perms_to_roles[permission_name]

_global_permissions == request_cache(<<"_global_permissions">>)

\* _has_any_role as it would be were it to look at the global context only
_has_any_role_global(group_ids, role_ids) ==
    \E q \in BagToSet(rolegrant) :
        q[1] \in group_ids /\ q[2] \in role_ids /\ q[4] = "global"

\* bool(first column of the first matching row)
_has_any_role(group_ids, role_ids) ==
    \E q \in BagToSet(rolegrant) :
        q[1] \in group_ids /\ q[2] \in role_ids /\ Truthy(q[1])

-----------------------------------------------------------------------------
(* Traversal engine *)

\* ContextSet.join over a set of ids gathered from Context / ContextSet
\* values of one model: falsy ids dropped, None when nothing is left
ContextSet_join(model, ids) ==
    LET kept == {i \in ids : Truthy(i)}
    IN  IF kept = {} THEN None ELSE ContextSet(model, SortedSeq(kept))

\* resolve_attribute, relationship case: id -> the related Context or
\* ContextSet
\* (a many-to-one maps every stored id to its foreign key, NULL included;
\* a one-to-many has a key only for parents with children; the
\* many-to-many branch builds a filter and falls through to {})
resolve_attribute(context, attribute) ==
    LET M == context.model
        prop == relationships(M)[attribute]
        ids == Range(context.ids) \cap RowIds(M)
        children(k) == {j \in RowIds(prop.target) : Col(prop.target, prop.fk, j) = k}
    IN  CASE prop.direction = "MANYTOONE" ->
               [i \in ids |-> Context(prop.target, Col(M, prop.fk, i))]
          [] prop.direction = "ONETOMANY" ->
               [k \in {i \in Range(context.ids) : children(i) # {}} |->
                   ContextSet(prop.target, SortedSeq(children(k)))]
          [] OTHER -> <<>>

\* resolve_attribute, column case: id -> value
resolve_column(context, attribute) ==
    [i \in Range(context.ids) \cap RowIds(context.model) |->
        Col(context.model, attribute, i)]

\* the field of the hash 'traverse:{table}.{attribute}' that holds the
\* referent of one id
EdgeKey(M, attribute, id) == <<"traverse", tablename(M), attribute, id>>

\* _redis_footprint as it would be were one id kept of a ContextSet
_redis_footprint_first(type, object) ==
    dumps(CASE type = "Context" -> object.id
            [] type = "ContextSet" -> {object.ids[1]}
            [] OTHER -> object)

\* _redis_footprint; type is the class of object: a Context leaves its
\* id, a ContextSet the set of its ids, anything else itself
_redis_footprint(type, object) ==
    dumps(CASE type = "Context" -> object.id
            [] type = "ContextSet" -> Range(object.ids)
            [] OTHER -> object)

\* _redis_defootprint; the ids of the ContextSet it builds are the stored
\* set, written here as the ascending tuple
_redis_defootprint(is_many, blob, model) ==
    LET object == loads(blob)
    IN  IF is_many
        THEN (IF model # "None" THEN ContextSet(model, SortedSeq(object)) ELSE object)
        ELSE (IF model # "None" THEN Context(model, object) ELSE object)

\* is_reference, is_many and the class of what resolve_attribute gives
EdgeKind(M, attribute) ==
    LET is_reference == attribute \in DOMAIN relationships(M)
        is_many == is_reference /\ relationships(M)[attribute].direction
                                      \in {"MANYTOMANY", "ONETOMANY"}
    IN  [is_reference |-> is_reference, is_many |-> is_many,
         model |-> IF is_reference THEN relationships(M)[attribute].target ELSE "None",
         type |-> IF ~is_reference THEN "scalar"
                  ELSE IF is_many THEN "ContextSet" ELSE "Context"]

\* the ids of object the hash store has no blob for
missing_contexts(store, object, attribute) ==
    {i \in Range(object.ids) : EdgeKey(object.model, attribute, i) \notin DOMAIN store}

\* what resolve_attribute gives for a relationship or a column
Resolved(object, attribute) ==
    IF attribute \in DOMAIN relationships(object.model)
    THEN resolve_attribute(object, attribute)
    ELSE resolve_column(object, attribute)

\* the ids met in a Context or a ContextSet
IdsOf(v) == IF "id" \in DOMAIN v THEN {v.id} ELSE Range(v.ids)

\* _referent: the referent of an attribute for a ContextSet; the tuple of
\* truthy values for a column, the joined ContextSet for a relationship,
\* None when nothing resolves. Ids with a blob in the hash are read from
\* it; when one has none, all are resolved from the database as well
_referent(object, attribute) ==
    LET M == object.model
        kind == EdgeKind(M, attribute)
        stored == Range(object.ids) \ missing_contexts(redis, object, attribute)
        queried == IF missing_contexts(redis, object, attribute) # {}
                   THEN Resolved(object, attribute) ELSE <<>>
        resolved == [i \in DOMAIN queried \cup stored |->
                        IF i \in stored
                        THEN _redis_defootprint(kind.is_many,
                                                redis[EdgeKey(M, attribute, i)],
                                                kind.model)
                        ELSE queried[i]]
        order == SortedSeq(DOMAIN resolved)
    IN  IF ~kind.is_reference /\ attribute \notin columns(M) THEN Raise("KeyError")
        ELSE IF DOMAIN resolved = {} THEN None
        ELSE IF kind.is_reference
        THEN ContextSet_join(kind.model,
                             UNION {IdsOf(resolved[i]) : i \in DOMAIN resolved})
        ELSE [model |-> "tuple",
              ids |-> SelectSeq([n \in DOMAIN order |-> resolved[order[n]]],
                                Truthy)]

\* the hash store after _referent(object, attribute): when an id had no
\* blob, the footprint of every resolved id is written
hset_referent(store, object, attribute) ==
    LET M == object.model
        kind == EdgeKind(M, attribute)
    IN  IF (~kind.is_reference /\ attribute \notin columns(M))
           \/ missing_contexts(store, object, attribute) = {}
        THEN store
        ELSE LET queried == Resolved(object, attribute)
                 payload == {EdgeKey(M, attribute, i) : i \in DOMAIN queried}
             IN  [k \in DOMAIN store \cup payload |->
                     IF k \in payload
                     THEN _redis_footprint(kind.type, queried[k[4]])
                     ELSE store[k]]

is_recursive(model, attribute) ==
    /\ attribute \in DOMAIN relationships(model)
    /\ relationships(model)[attribute].target = model

\* recursive_traverse: follow the attribute until it resolves to nothing,
\* joining what was met on the way; fuel bounds the unfolding
MaxDepth == 4

RECURSIVE recursive_loop(_, _, _, _)
recursive_loop(current, attribute, seen, fuel) ==
    Let(_referent(current, attribute), LAMBDA next :
        IF IsRaise(next) THEN next
        ELSE IF next = None
        THEN (IF seen = {} THEN None
              ELSE ContextSet_join(current.model,
                                   UNION {Range(c.ids) : c \in seen}))
        ELSE IF fuel = 0 THEN Raise("Diverges")
        ELSE recursive_loop(next, attribute, seen \cup {next}, fuel - 1))

recursive_traverse(object, attribute) ==
    recursive_loop(object, attribute, {}, MaxDepth)

\* traverse: what the generator yields, in order, one value per depth
\* 1, 2, ...; it stops at the first None; an exception ends the sequence
RECURSIVE traverse_from(_, _, _)
traverse_from(current, path, n) ==
    IF n > Len(path) THEN <<>>
    ELSE IF current.model \notin Models THEN <<Raise("AttributeError")>>
    ELSE Let(IF is_recursive(current.model, path[n])
             THEN recursive_traverse(current, path[n])
             ELSE _referent(current, path[n]), LAMBDA next :
             IF Aborts(next) THEN <<next>>
             ELSE IF next = None THEN <<>>
             ELSE <<next>> \o traverse_from(next, path, n + 1))

traverse(context, path) == traverse_from(context, path, 1)

\* tree_traverse: the root if asked, then for every segment of the tree
\* every value of depth >= start, descending into the subtree from the
\* value that ends the segment
RECURSIVE tree_traverse(_, _, _, _)
tree_traverse(object, path, start, is_root) ==
    LET ofSegment(segment) ==
            Let(traverse(object, segment), LAMBDA ys :
                LET at(depth) ==
                        (IF depth >= start \/ Aborts(ys[depth])
                         THEN <<ys[depth]>> ELSE <<>>)
                        \o (IF depth = Len(segment) /\ ~Aborts(ys[depth])
                            THEN tree_traverse(ys[depth], path[segment],
                                               start - Len(segment), FALSE)
                            ELSE <<>>)
                IN  Flatten([depth \in DOMAIN ys |-> at(depth)]))
    IN  (IF is_root THEN <<object>> ELSE <<>>)
        \o Let(items(path), LAMBDA segs :
                Flatten([n \in DOMAIN segs |-> ofSegment(segs[n])]))

\* The same walks as the sequence of what happens, in order: every
\* _referent call (a fetch) and every value handed to the consumer (a
\* yield); a consumer that returns early leaves the later fetches undone
Fetch(object, attribute) ==
    [ev |-> "fetch", object |-> object, attribute |-> attribute, depth |-> 0]

Yield(value, depth) ==
    [ev |-> "yield", object |-> value, attribute |-> "", depth |-> depth]

referent_log(object, attribute) ==
    IF IsRaise(_referent(object, attribute)) THEN <<>>
    ELSE <<Fetch(object, attribute)>>

RECURSIVE recursive_log(_, _, _)
recursive_log(current, attribute, fuel) ==
    Let(_referent(current, attribute), LAMBDA next :
        IF IsRaise(next) THEN <<>>
        ELSE <<Fetch(current, attribute)>>
             \o (IF next = None \/ fuel = 0 THEN <<>>
                 ELSE recursive_log(next, attribute, fuel - 1)))

RECURSIVE traverse_log(_, _, _)
traverse_log(current, path, n) ==
    IF n > Len(path) THEN <<>>
    ELSE IF current.model \notin Models THEN <<Yield(Raise("AttributeError"), n)>>
    ELSE Let(IF is_recursive(current.model, path[n])
             THEN recursive_traverse(current, path[n])
             ELSE _referent(current, path[n]), LAMBDA next :
             (IF is_recursive(current.model, path[n])
              THEN recursive_log(current, path[n], MaxDepth)
              ELSE referent_log(current, path[n]))
             \o (IF Aborts(next) THEN <<Yield(next, n)>>
                 ELSE IF next = None THEN <<>>
                 ELSE <<Yield(next, n)>> \o traverse_log(next, path, n + 1)))

RECURSIVE tree_log(_, _, _, _)
tree_log(object, path, start, is_root) ==
    LET ofSegment(segment) ==
            Let(traverse(object, segment), LAMBDA ys :
                SelectSeq(traverse_log(object, segment, 1),
                          LAMBDA e : e.ev = "fetch" \/ e.depth >= start
                                                    \/ Aborts(e.object))
                \o (IF Len(ys) = Len(segment) /\ ~Aborts(ys[Len(ys)])
                    THEN tree_log(ys[Len(ys)], path[segment],
                                  start - Len(segment), FALSE)
                    ELSE <<>>))
    IN  (IF is_root THEN <<Yield(object, 0)>> ELSE <<>>)
        \o Let(items(path), LAMBDA segs :
                Flatten([n \in DOMAIN segs |-> ofSegment(segs[n])]))

-----------------------------------------------------------------------------
(* Schema inversion and the default checker *)

\* inverted_properties as it would be were the inverse relation filed
\* under the model that declares the relation, not under its target
inverted_properties_by_source(schema) ==
    LET pairs == {<<x[1], relationships(x[1])[x[2]].back_populates>> :
                    x \in {y \in UNION {{<<mm, pp>> : pp \in schema[mm]} :
                                           mm \in DOMAIN schema} :
                              y[2] \in DOMAIN relationships(y[1])}}
    IN  [t \in {x[1] : x \in pairs} |-> {x[2] : x \in {y \in pairs : y[1] = t}}]

\* inverted_properties: target model -> names of the inverse relations
inverted_properties(schema) ==
    LET pairs == {<<relationships(m)[p].target, relationships(m)[p].back_populates>> :
                    <<m, p>> \in {x \in UNION {{<<mm, pp>> : pp \in schema[mm]} :
                                                 mm \in DOMAIN schema} :
                                    x[2] \in DOMAIN relationships(x[1])}}
    IN  [t \in {x[1] : x \in pairs} |-> {x[2] : x \in {y \in pairs : y[1] = t}}]

inv_propagation_schema == inverted_properties(propagation_schema)

\* Auth._explode_partial_schema: every dotted path from the model over the
\* inverted schema
RECURSIVE tree_explore(_)
tree_explore(node) ==
    IF node \notin DOMAIN inv_propagation_schema THEN {}
    ELSE UNION {{<<child>>} \cup
                {<<child>> \o sub :
                   sub \in tree_explore(relationships(node)[child].target)} :
                child \in inv_propagation_schema[node]}

_explode_partial_schema(model_name) == tree_explore(model_name)

DefaultChecker(action, model_name) ==
    Or(<<Global(action), Path(action, _explode_partial_schema(model_name))>>)

\* Auth._action_checker: the registered checker, or the default it would
\* synthesize and store
_action_checker(action, model_name) ==
    IF model_name \in DOMAIN actions /\ action \in DOMAIN actions[model_name]
    THEN actions[model_name][action]
    ELSE DefaultChecker(action, model_name)

\* the registry after _action_checker(action, model_name)
Memoized(action, model_name) ==
    LET known == IF model_name \in DOMAIN actions THEN actions[model_name] ELSE <<>>
    IN  IF action \in DOMAIN known THEN actions
        ELSE [m \in DOMAIN actions \cup {model_name} |->
                IF m = model_name
                THEN [a \in DOMAIN known \cup {action} |->
                        IF a = action THEN DefaultChecker(action, model_name)
                        ELSE known[a]]
                ELSE actions[m]]

-----------------------------------------------------------------------------
(* Checker evaluation: "True", "False" or the exception that escapes *)

AsSet(context) == ContextSet(context.model, <<context.id>>)

\* Path.__call__ as it would be were the record itself not yielded
Path_call_below(c, group_ids, role_ids, object) ==
    Let(tree_traverse(AsSet(object), c.paths, 0, FALSE), LAMBDA ys :
        LET hit(i) == /\ ~Aborts(ys[i])
                      /\ \E id \in Range(ys[i].ids), g \in group_ids :
                            _contextual_roles(g, Context(ys[i].model, id))
                                \cap role_ids # {}
        IN  IF \E i \in DOMAIN ys : hit(i) THEN "True" ELSE "False")

\* Path.__call__
Path_call(c, group_ids, role_ids, object) ==
    Let(tree_traverse(AsSet(object), c.paths, 0, TRUE), LAMBDA ys :
        LET bad(i) == Aborts(ys[i])
            hit(i) == /\ ~bad(i)
                      /\ \E id \in Range(ys[i].ids), g \in group_ids :
                            _contextual_roles(g, Context(ys[i].model, id))
                                \cap role_ids # {}
        IN  IF \E i \in DOMAIN ys : hit(i) /\ \A j \in 1..(i - 1) : ~bad(j)
            THEN "True"
            ELSE IF \E i \in DOMAIN ys : bad(i)
            THEN ys[CHOOSE i \in DOMAIN ys : bad(i) /\ \A j \in 1..(i - 1) : ~bad(j)].model
            ELSE "False")

\* what traverse(object, path, start=path_length) yields for Owner / Group
Terminal(c, object) ==
    Let(traverse(AsSet(object), c.on), LAMBDA ys :
        IF \E i \in DOMAIN ys : Aborts(ys[i])
        THEN <<ys[Len(ys)]>>
        ELSE IF Len(ys) >= Len(c.on) THEN <<ys[Len(c.on)]>> ELSE <<>>)

\* Owner.__call__
Owner_call(c, user, object) ==
    Let(Terminal(c, object), LAMBDA t :
        IF t = <<>> THEN "False"
        ELSE IF Aborts(t[1]) THEN t[1].model
        ELSE IF user \in Range(t[1].ids) THEN "True" ELSE "False")

\* Group.__call__: set(value) holds Context tuples when the path ends on
\* a relationship, which never meet the integer group ids
Group_call(c, group_ids, object) ==
    Let(Terminal(c, object), LAMBDA t :
        IF t = <<>> THEN "False"
        ELSE IF Aborts(t[1]) THEN t[1].model
        ELSE IF t[1].model = "tuple" /\ Range(t[1].ids) \cap group_ids # {}
        THEN "True" ELSE "False")

\* Global.__call__ as it would be were only flagged permissions honoured
Global_call_flagged(c, group_ids, role_ids) ==
    IF c.permission \in _global_permissions /\ _has_any_role(group_ids, role_ids)
    THEN "True" ELSE "False"

\* Global.__call__
Global_call(c, group_ids, role_ids) ==
    IF c.permission \in _global_permissions
    THEN (IF _has_any_role(group_ids, role_ids) THEN "True" ELSE "False")
    ELSE IF \E g \in group_ids :
               _contextual_roles(g, GLOBAL_CONTEXT) \cap role_ids # {}
    THEN "True" ELSE "False"

\* Not.__call__ as it would be were the child called with the user
Not_call_negating(c, user, group_ids, role_ids, object) ==
    LET r == Path_call(c.checkers[1], group_ids, role_ids, object)
    IN  IF r = "True" THEN "False" ELSE IF r = "False" THEN "True" ELSE r

\* Not.__call__ hands its child three arguments where four are required
Not_call(c, user, group_ids, role_ids, object) == "TypeError"

RECURSIVE Call(_, _, _, _, _)
\* Or.__call__: the first child that says True, or raises, decides
Or_call(cs, user, group_ids, role_ids, object) ==
    Let([i \in DOMAIN cs |-> Call(cs[i], user, group_ids, role_ids, object)],
        LAMBDA rs :
        LET stop(i) == rs[i] # "False"
        IN  IF \E i \in DOMAIN rs : stop(i)
            THEN rs[CHOOSE i \in DOMAIN rs : stop(i) /\ \A j \in 1..(i - 1) : ~stop(j)]
            ELSE "False")

\* checker(user, group_ids, role_ids, object)
Call(c, user, group_ids, role_ids, object) ==
    CASE c.kind = "Path" -> Path_call(c, group_ids, role_ids, object)
      [] c.kind = "Owner" -> Owner_call(c, user, object)
      [] c.kind = "Group" -> Group_call(c, group_ids, object)
      [] c.kind = "Global" -> Global_call(c, group_ids, role_ids)
      [] c.kind = "Or" -> Or_call(c.checkers, user, group_ids, role_ids, object)
         \* And.__call__ hands each child three arguments where four are
         \* required
      [] c.kind = "And" -> IF c.checkers = <<>> THEN "True" ELSE "TypeError"
      [] c.kind = "Not" -> Not_call(c, user, group_ids, role_ids, object)

\* Auth.can
can(user, action, context) ==
    Let(<<_action_checker(action, context.model), _user_groups(user),
          _resolve_permission(action)>>,
        LAMBDA v : Call(v[1], user, v[2], v[3], context))

\* Auth.has_permission
has_permission(user, permission_name, context) ==
    LET role_ids == _resolve_permission(permission_name)
        valid_roles == UNION {_contextual_roles(g, context) : g \in _user_groups(user)}
    IN  role_ids \cap valid_roles # {}

-----------------------------------------------------------------------------
(* What a call reads through the caches: the keys of the decorated       *)
(* functions it awaits and the _referent calls it makes, in order        *)

Reads(keys, fetches) == [keys |-> keys, fetches |-> fetches]

Plus(a, b) == Reads(a.keys \cup b.keys, a.fetches \o b.fetches)

\* for context in contexts: for group_id in group_ids: the pairs looked
\* up in a yielded ContextSet, up to the first that holds a role
RoleKeys(v, group_ids, role_ids) ==
    LET pairs == (DOMAIN v.ids) \X group_ids
        holds(p) == _contextual_roles(p[2], Context(v.model, v.ids[p[1]]))
                        \cap role_ids # {}
        upto(p, q) == p[1] < q[1] \/ (p[1] = q[1] /\ p[2] <= q[2])
    IN  {KeyRoles(p[2], Context(v.model, v.ids[p[1]])) :
           p \in {x \in pairs : \A q \in pairs : (holds(q) /\ q # x) => upto(x, q)}}

\* Path.__call__: the walk stops at the first value that holds a role
Path_reads(c, group_ids, role_ids, object) ==
    Let(tree_log(AsSet(object), c.paths, 0, TRUE), LAMBDA es :
        LET holds(v) == \E id \in Range(v.ids), g \in group_ids :
                           _contextual_roles(g, Context(v.model, id))
                               \cap role_ids # {}
            stops(i) == es[i].ev = "yield"
                        /\ (Aborts(es[i].object) \/ holds(es[i].object))
            last == IF \E i \in DOMAIN es : stops(i)
                    THEN Min({i \in DOMAIN es : stops(i)}) ELSE Len(es)
            done == SubSeq(es, 1, last)
        IN  Reads(UNION {RoleKeys(done[i].object, group_ids, role_ids) :
                           i \in {j \in DOMAIN done :
                                     done[j].ev = "yield" /\ ~Aborts(done[j].object)}},
                  SelectSeq(done, LAMBDA e : e.ev = "fetch")))

RECURSIVE Call_reads(_, _, _, _, _)
\* Or.__call__: the children up to the first that decides
Or_reads(cs, user, group_ids, role_ids, object) ==
    LET stop(i) == Call(cs[i], user, group_ids, role_ids, object) # "False"
        RECURSIVE upto(_)
        upto(i) == IF i > Len(cs) THEN Reads({}, <<>>)
                   ELSE Plus(Call_reads(cs[i], user, group_ids, role_ids, object),
                             IF stop(i) THEN Reads({}, <<>>) ELSE upto(i + 1))
    IN  upto(1)

Call_reads(c, user, group_ids, role_ids, object) ==
    CASE c.kind = "Path" -> Path_reads(c, group_ids, role_ids, object)
         \* Owner.__call__ / Group.__call__: values come at the end of the
         \* path
      [] c.kind \in {"Owner", "Group"} ->
           Reads({}, SelectSeq(traverse_log(AsSet(object), c.on, 1),
                               LAMBDA e : e.ev = "fetch"))
         \* Global.__call__
      [] c.kind = "Global" ->
           Reads({<<"_global_permissions">>} \cup
                 (IF c.permission \in _global_permissions THEN {}
                  ELSE RoleKeys(ContextSet("None", <<GLOBAL_CONTEXT.id>>),
                                group_ids, role_ids)),
                 <<>>)
      [] c.kind = "Or" -> Or_reads(c.checkers, user, group_ids, role_ids, object)
      [] OTHER -> Reads({}, <<>>)

\* the shared tier after the fetches of a call, in order
RECURSIVE hset_all(_, _)
hset_all(store, fetches) ==
    IF fetches = <<>> THEN store
    ELSE hset_all(hset_referent(store, Head(fetches).object,
                                Head(fetches).attribute),
                  Tail(fetches))

\* the tiers the next call finds, after a call that read r through the
\* caches and then discarded the entries of the keys in K: the ones the
\* call leaves when the calls share a ContextManager, empty ones when each
\* call has its own
Leaves(r, K) ==
    /\ request' = IF shared THEN discard(request_after(r.keys), K) ELSE <<>>
    /\ redis' = IF shared
                THEN discard(hset_all(redis_after(r.keys), r.fetches), K)
                ELSE <<>>
    /\ warm' = IF shared THEN [request |-> DOMAIN request \cap K] ELSE <<>>
    /\ UNCHANGED shared

Records == {Context(M, i) : <<M, i>> \in UNION {{<<m, j>> : j \in RowIds(m)} : m \in Models}}

-----------------------------------------------------------------------------
(* Grant store: contexts where a permission is held *)

\* the rows of the select of contexts_by_permission for one context,
\* counted with their multiplicity
GrantCopies(group_ids, role_ids, t, i) ==
    LET rows == {q \in BagToSet(rolegrant) :
                   q[1] \in group_ids /\ q[2] \in role_ids /\ q[3] = i /\ q[4] = t}
        RECURSIVE sum(_)
        sum(S) == IF S = {} THEN 0
                  ELSE LET q == CHOOSE x \in S : TRUE
                       IN  rolegrant[q] + sum(S \ {q})
    IN  sum(rows)

Repeat(x, n) == [k \in 1..n |-> x]

\* contexts_by_permission as it would be were the global rows not left out
contexts_by_permission_all(group_ids, perm) ==
    LET role_ids == _resolve_permission(perm)
        rows == {q \in BagToSet(rolegrant) : q[1] \in group_ids /\ q[2] \in role_ids}
    IN  {ContextSet(to_class(t), SortedSeq({q[3] : q \in {x \in rows : x[4] = t}})) :
           t \in {q[4] : q \in rows}}

\* Auth.contexts_by_permission for a set of group ids: one ContextSet per
\* table, its ids the sorted context_id column of the matching rows
contexts_by_permission(group_ids, perm) ==
    Let(<<group_ids, _resolve_permission(perm)>>, LAMBDA v :
    Let({q \in BagToSet(rolegrant) :
           q[1] \in v[1] /\ q[2] \in v[2] /\ q[4] # "global"}, LAMBDA rows :
        LET idsOf(t) ==
                Let(SortedSeq({q[3] : q \in {x \in rows : x[4] = t}}), LAMBDA order :
                    Flatten([n \in DOMAIN order |->
                               Repeat(order[n], GrantCopies(v[1], v[2], t, order[n]))]))
        IN  IF v[1] = {} \/ v[2] = {} THEN {}
            ELSE {ContextSet(to_class(t), idsOf(t)) : t \in {q[4] : q \in rows}}))

-----------------------------------------------------------------------------
(* Query rewriting: joins *)

\* a relationship or column property met by class_traverse; a join list
\* may also hold the booleans the checkers put there
Prop(parent, key) == [parent |-> parent, key |-> key]

Sentinel(b) == [parent |-> "bool", key |-> b]

IsSentinel(p) == p.parent = "bool"

IsRel(p) == p.parent \in Models /\ p.key \in DOMAIN relationships(p.parent)

prop_target(p) == relationships(p.parent)[p.key].target

\* a result that is either a value or an escaping exception
Ok(v) == [exc |-> "", val |-> v]

Exc(e) == [exc |-> e, val |-> <<>>]

\* class_traverse: the properties along a dotted path; a part that is no
\* relationship is looked up among the attributes, ends the walk, and
\* raises when there is no such attribute
RECURSIVE class_traverse_from(_, _, _)
class_traverse_from(model, parts, n) ==
    IF n > Len(parts) THEN <<>>
    ELSE IF parts[n] \in DOMAIN relationships(model)
    THEN <<Prop(model, parts[n])>>
         \o class_traverse_from(relationships(model)[parts[n]].target, parts, n + 1)
    ELSE IF parts[n] \in columns(model) THEN <<Prop(model, parts[n])>>
    ELSE <<Prop("AttributeError", parts[n])>>

class_traverse(cls, path) == class_traverse_from(cls, path, 1)

\* the steps of one path in Path.joins: what the walk adds to ret
PathJoinSteps(props, models) ==
    LET bad(i) == ~IsRel(props[i])
        recursive(i) == IsRel(props[i]) /\ prop_target(props[i]) = props[i].parent
        permitted(i) == IsRel(props[i]) /\ prop_target(props[i]) \in models
        rec(i) == {j \in 1..i : recursive(j)}
        \* the walk is left at the first permitted step inside a recursion
        brk == {i \in DOMAIN props : permitted(i) /\ rec(i) # {}}
        last == IF brk = {} THEN Len(props) ELSE Min(brk)
        add(i) == IF ~permitted(i) THEN <<>>
                  ELSE IF rec(i) # {} THEN SubSeq(props, 1, Max(rec(i)) - 1)
                  ELSE SubSeq(props, 1, i)
    IN  IF \E i \in 1..last : bad(i) THEN Exc("AttributeError")
        ELSE Ok(Flatten([i \in 1..last |-> add(i)]))

\* Path.joins
Path_joins(c, group_ids, target) ==
    Let(contexts_by_permission(group_ids, c.permission), LAMBDA permitted_contexts :
    Let(all_paths(c.paths), LAMBDA paths :
    Let([n \in DOMAIN paths |->
           Let(<<class_traverse(target, paths[n]),
                 {context.model : context \in permitted_contexts}>>,
               LAMBDA v : PathJoinSteps(v[1], v[2]))] \o <<>>, LAMBDA per :
        IF permitted_contexts = {} THEN Ok(<<Sentinel("False")>>)
        ELSE IF \E n \in DOMAIN per : per[n].exc # ""
        THEN Exc(per[CHOOSE n \in DOMAIN per : per[n].exc # ""].exc)
        ELSE Ok(Dedup(Flatten([n \in DOMAIN per |-> per[n].val]))))))

\* Owner.joins (and Group.joins): the leading relations of the path; a
\* one-part path leaves the empty name to look up
Owner_joins(c, target) ==
    Let(class_traverse(target, IF Len(c.on) = 1 THEN <<"">>
                               ELSE SubSeq(c.on, 1, Len(c.on) - 1)), LAMBDA props :
        IF \E i \in DOMAIN props : props[i].parent = "AttributeError"
        THEN Exc("AttributeError")
        ELSE Ok(props))

\* Global.joins
Global_joins(c, group_ids) ==
    IF Global_call(c, group_ids, _resolve_permission(c.permission)) = "True"
    THEN Ok(<<Sentinel("True")>>)
    ELSE Ok(<<>>)

RECURSIVE Joins(_, _, _)
\* Or.joins: the children's lists one after the other
Or_joins(cs, group_ids, target) ==
    Let([i \in DOMAIN cs |-> Joins(cs[i], group_ids, target)] \o <<>>, LAMBDA js :
        IF \E i \in DOMAIN js : js[i].exc # ""
        THEN Exc(js[CHOOSE i \in DOMAIN js :
                      js[i].exc # "" /\ \A j \in 1..(i - 1) : js[j].exc = ""].exc)
        ELSE Ok(Flatten([i \in DOMAIN js |-> js[i].val])))

\* checker.joins(group_ids, target)
Joins(c, group_ids, target) ==
    CASE c.kind = "Path" -> Path_joins(c, group_ids, target)
      [] c.kind \in {"Owner", "Group"} -> Owner_joins(c, target)
      [] c.kind = "Global" -> Global_joins(c, group_ids)
      [] c.kind = "Or" -> Or_joins(c.checkers, group_ids, target)
      [] OTHER -> Exc("NotImplementedError")

-----------------------------------------------------------------------------
(* Query rewriting: where *)

\* what a where() hands back: a Python constant (kind "True", "False",
\* "None", "list" for []), an or_ of id in-lists (kind "in", conds), a
\* column compared with values (kind "attr"), or an or_ of such (kind "or")
Where(kind, conds, attr, vals, children) ==
    [kind |-> kind, conds |-> conds, attr |-> attr, vals |-> vals,
     children |-> children]

Const(kind) == Where(kind, {}, Prop("", ""), {}, <<>>)

\* a model.id.in_(ids)
Cond(model, ids) == [model |-> model, ids |-> ids]

invert_prop(p) == Prop(prop_target(p), relationships(p.parent)[p.key].back_populates)

Reverse(s) == [i \in DOMAIN s |-> s[Len(s) + 1 - i]]

\* the walk of one path in Path.where: the in-lists it appends to items
\* and the value its overjoin variable is left with
PathWhereSteps(props, permitted) ==
    LET recursive(i) == prop_target(props[i]) = props[i].parent
        rec(i) == {j \in 1..i : recursive(j)}
        model(i) == prop_target(props[i])
        hit(i) == model(i) \in DOMAIN permitted
        plain == {i \in DOMAIN props : hit(i) /\ rec(i) = {}}
        over == {i \in DOMAIN props : hit(i) /\ rec(i) # {}}
        \* overjoin is rebuilt at every recursive step: what it holds at
        \* the end was put there after the last one
        lastrec == IF rec(Len(props)) = {} THEN 0 ELSE Max(rec(Len(props)))
        kept == SortedSeq({i \in over : i >= lastrec})
    IN  [items |-> {Cond(model(i), Range(permitted[model(i)])) : i \in plain},
         overjoin |-> [n \in DOMAIN kept |->
                         [path |-> SubSeq(props, lastrec, kept[n]),
                          ids |-> permitted[model(kept[n])]]]]

\* the projection of one overjoin entry back through the inverted path
OverjoinItems(entry) ==
    Let(entry, LAMBDA e :
        traverse(ContextSet(prop_target(e.path[Len(e.path)]), e.ids),
                 [i \in DOMAIN e.path |-> invert_prop(Reverse(e.path)[i]).key]))

\* Path.where
Path_where(c, group_ids, target) ==
    Let(contexts_by_permission(group_ids, c.permission), LAMBDA cs :
    Let([m \in {x.model : x \in cs} |-> (CHOOSE x \in cs : x.model = m).ids],
        LAMBDA permitted :
    Let(all_paths(c.paths), LAMBDA paths :
    Let([n \in DOMAIN paths |-> class_traverse(target, paths[n])] \o <<>>,
        LAMBDA walks :
        IF \E n \in DOMAIN walks : \E i \in DOMAIN walks[n] : ~IsRel(walks[n][i])
        THEN Exc("AttributeError")
        ELSE IF paths = <<>> THEN Exc("UnboundLocalError")
        ELSE
    Let([n \in DOMAIN walks |-> PathWhereSteps(walks[n], permitted)] \o <<>>,
        LAMBDA steps :
    Let(Flatten([n \in DOMAIN steps[Len(steps)].overjoin |->
                   OverjoinItems(steps[Len(steps)].overjoin[n])]), LAMBDA projected :
    Let(UNION {steps[n].items : n \in DOMAIN steps}
        \cup {Cond(projected[k].model, Range(projected[k].ids)) :
                k \in {j \in DOMAIN projected : ~Aborts(projected[j])}}
        \cup (IF target \in DOMAIN permitted
              THEN {Cond(target, Range(permitted[target]))} ELSE {}), LAMBDA found :
        \* aggregate_references: one in-list per model met
        LET contexts == {Cond(m, UNION {x.ids : x \in {y \in found : y.model = m}}) :
                           m \in {x.model : x \in found}}
        IN  IF \E k \in DOMAIN projected : Aborts(projected[k])
            THEN Exc(projected[CHOOSE k \in DOMAIN projected :
                                 Aborts(projected[k])].model)
            ELSE IF contexts # {}
            THEN Ok(Where("in", contexts, Prop("", ""), {}, <<>>))
            ELSE Ok(Const("False")))))))))

\* Owner.where / Group.where: the last property of the path compared with
\* the user id / the group ids
Owner_where(c, user, group_ids, target) ==
    Let(class_traverse(target, c.on), LAMBDA props :
        IF props[Len(props)].parent = "AttributeError" THEN Exc("AttributeError")
        ELSE Ok(Where("attr", {}, props[Len(props)],
                      IF c.kind = "Owner" THEN {user} ELSE group_ids, <<>>)))

RECURSIVE WhereOf(_, _, _, _)
\* Or.where
Or_where(cs, user, group_ids, target) ==
    Let([i \in DOMAIN cs |-> WhereOf(cs[i], user, group_ids, target)] \o <<>>,
        LAMBDA ws :
        IF \E i \in DOMAIN ws : ws[i].exc # ""
        THEN Exc(ws[CHOOSE i \in DOMAIN ws :
                      ws[i].exc # "" /\ \A j \in 1..(i - 1) : ws[j].exc = ""].exc)
        ELSE
    Let(SelectSeq([i \in DOMAIN ws |-> ws[i].val], LAMBDA w : w.kind # "None"),
        LAMBDA conditions :
        IF \E i \in DOMAIN conditions : conditions[i].kind = "True"
        THEN Ok(Const("True"))
        ELSE IF Len(conditions) = 1 THEN Ok(conditions[1])
        ELSE IF Len(conditions) > 1
        THEN (IF \E i \in DOMAIN conditions : conditions[i].kind = "list"
              THEN Exc("ArgumentError")
              ELSE Ok(Where("or", {}, Prop("", ""), {}, conditions)))
        ELSE Ok(Const("list"))))

\* checker.where(user, group_ids, target)
WhereOf(c, user, group_ids, target) ==
    CASE c.kind = "Path" -> Path_where(c, group_ids, target)
      [] c.kind \in {"Owner", "Group"} -> Owner_where(c, user, group_ids, target)
      [] c.kind = "Global" -> Ok(Const("None"))
      [] c.kind = "Or" -> Or_where(c.checkers, user, group_ids, target)
      [] OTHER -> Exc("NotImplementedError")

-----------------------------------------------------------------------------
(* Query rewriting: the facade and the rows a rewritten query selects *)

\* a select over the target: the outer joins and the filter added to it
\* (filter "absent": none added)
Query(target, joins, where) == [target |-> target, joins |-> joins, where |-> where]

\* Auth.accessible_query(user, select(target), action)
accessible_query(user, target, action) ==
    Let(<<_action_checker(action, target), _user_groups(user)>>, LAMBDA v :
    Let(Joins(v[1], v[2], target), LAMBDA joins :
        IF joins.exc # "" THEN Exc(joins.exc)
        ELSE IF joins.val = <<>> THEN Ok(Query(target, <<>>, Const("False")))
        ELSE IF \E i \in DOMAIN joins.val : joins.val[i] = Sentinel("None")
        THEN Ok(Query(target, <<>>, Const("absent")))
        ELSE IF \E i \in DOMAIN joins.val : IsSentinel(joins.val[i])
        THEN Exc("AttributeError")
        ELSE
    Let(WhereOf(v[1], user, v[2], target), LAMBDA where :
        IF where.exc # "" THEN Exc(where.exc)
        \* filter(None) compares with NULL; a list is no SQL expression
        ELSE IF where.val.kind = "list" THEN Exc("ArgumentError")
        ELSE Ok(Query(target, joins.val, where.val)))))

\* the rows a left outer join along a relationship adds to a row
Related(p, i) ==
    LET rel == relationships(p.parent)[p.key]
    IN  IF i = Null THEN {}
        ELSE IF rel.direction = "MANYTOONE"
        THEN {Col(p.parent, rel.fk, i)} \cap RowIds(rel.target)
        ELSE {j \in RowIds(rel.target) : Col(rel.target, rel.fk, j) = i}

RECURSIVE Joined(_, _)
Joined(bindings, joins) ==
    IF joins = <<>> THEN bindings
    ELSE LET p == Head(joins)
             extend(b) == Let(IF p.parent \in DOMAIN b
                              THEN Related(p, b[p.parent]) ELSE {}, LAMBDA rows :
                              {b @@ (prop_target(p) :> j) :
                                 j \in IF rows = {} THEN {Null} ELSE rows})
         IN  Let(UNION {extend(b) : b \in bindings},
                 LAMBDA next : Joined(next, Tail(joins)))

RECURSIVE Holds(_, _)
Holds(w, b) ==
    CASE w.kind \in {"True", "absent"} -> TRUE
      [] w.kind = "in" -> \E cond \in w.conds :
                             cond.model \in DOMAIN b /\ b[cond.model] \in cond.ids
      [] w.kind = "attr" -> /\ w.attr.parent \in DOMAIN b
                            /\ b[w.attr.parent] # Null
                            /\ Col(w.attr.parent, w.attr.key, b[w.attr.parent]) \in w.vals
                            /\ Col(w.attr.parent, w.attr.key, b[w.attr.parent]) # Null
      [] w.kind = "or" -> \E i \in DOMAIN w.children : Holds(w.children[i], b)
      [] OTHER -> FALSE

\* ids of the target rows the query returns
Execute(q) ==
    Let(<<q, Dedup(q.joins)>>, LAMBDA v :
        {r \in RowIds(v[1].target) :
            \E b \in Joined({(v[1].target :> r)}, v[2]) : Holds(v[1].where, b)})

\* ids of the target rows the user can act on, one can() per row
Allowed(user, target, action) ==
    {r \in RowIds(target) : can(user, action, Context(target, r)) = "True"}

-----------------------------------------------------------------------------
(* Facade: mutating operations *)

\* inputs the operations are driven with
RoleNames == {"reader", "editor"}

PermissionNames == {"read", "write"}

AssignInputs == {<<"reader", <<"read">>>>,
                 <<"editor", <<"read", "write">>>>}

GlobalInputs == {<<"write">>}

\* contexts granted to a group, and to a user
GrantContexts == {GLOBAL_CONTEXT, Context("Country", 1)}

UserGrantContexts == {Context("Department", 1), Context("City", 2)}

GrantUsers == {1}

GrantGroups == {2}

RevokeGroups == {2, 3}

\* what a facade call gave back: None, a bool, the rows of a query, a set
\* of ContextSets, or the exception that escaped it
Return(kind, val) == [kind |-> kind, val |-> val]

Init ==
    /\ usergroups = [g \in {1, 2} |-> [owner_id |-> Null, is_personal |-> FALSE]]
    /\ membership = {<<1, 1>>, <<2, 1>>, <<2, 2>>}
    /\ role = <<>>
    /\ permission = <<>>
    /\ role_permission = {}
    /\ rolegrant = EmptyBag
    /\ actions = InitActions
    /\ request = <<>>
    /\ redis = <<>>
    /\ shared = FALSE
    /\ warm = <<>>
    /\ ret = Return("None", "None")
    /\ called = "None"
    /\ allowed = {}
    /\ tasks = <<>>

\* Auth._get_or_create_role / Auth._get_or_create_permission, then the
\* association rows that are not there yet; then
\* self._perms_to_roles.discard_all()
assign(role_name, permission_name) ==
    /\ role' = IF role_name \in DOMAIN role THEN role
               ELSE role @@ (role_name :> {})
    /\ permission' = permission @@
                     [p \in Range(permission_name) \ DOMAIN permission |-> FALSE]
    /\ role_permission' = role_permission \cup
                          {<<role_name, p>> : p \in Range(permission_name)}
    /\ Leaves(Reads({}, <<>>), discard_all("_perms_to_roles"))
    /\ ret' = Return("None", "None")
    /\ called' = "assign"
    /\ allowed' = {}
    /\ UNCHANGED <<tasks, usergroups, membership, rolegrant, actions>>

\* the statement building the id list raises before anything is touched
unassign(role_name, pemrission_names) ==
    /\ Leaves(Reads({}, <<>>), {})
    /\ ret' = Return("raise", "TypeError")
    /\ called' = "unassign"
    /\ allowed' = {}
    /\ UNCHANGED <<tasks, usergroups, membership, role, permission, role_permission,
                   rolegrant, actions>>

set_permission_global(is_global, permission_name) ==
    /\ permission' = [p \in DOMAIN permission \cup Range(permission_name) |->
                        IF p \in Range(permission_name) THEN is_global
                        ELSE permission[p]]
    /\ Leaves(Reads({}, <<>>), discard_all("_global_permissions"))
    /\ ret' = Return("None", "None")
    /\ called' = "set_permission_global"
    /\ allowed' = {}
    /\ UNCHANGED <<tasks, usergroups, membership, role, role_permission, rolegrant,
                   actions>>

\* the lookup of Auth._get_user_group as it would be were no personal
\* group found
private_groups_none(user) == {}

\* Auth._get_user_group: the personal groups of the user, one made on demand
private_groups(user) ==
    {g \in _user_groups(user) :
        usergroups[g].is_personal /\ usergroups[g].owner_id = user}

NewGroupId == Max(DOMAIN usergroups) + 1

_get_user_group_id(user) ==
    IF private_groups(user) = {} THEN NewGroupId
    ELSE CHOOSE g \in private_groups(user) : TRUE

_get_user_group_rows(user) ==
    IF private_groups(user) = {}
    THEN usergroups @@ (NewGroupId :> [owner_id |-> user, is_personal |-> TRUE])
    ELSE usergroups

_get_user_group_members(user) ==
    IF private_groups(user) = {}
    THEN membership \cup {<<NewGroupId, user>>}
    ELSE membership

GrantRow(group_id, role_name, context) ==
    <<group_id, role_name, context.id, table(context)>>

\* what can() allows in the current state
Decided ==
    {x \in Users \X Actions \X Records : can(x[1], x[2], x[3]) = "True"}

\* the lookup of Auth.grant as it would be were it to find nothing
existing_grant_none(row) == FALSE

\* the lookup of Auth.grant: a stored row equal to the quadruple
existing_grant(row) == BagIn(row, rolegrant)

\* the whitelist test of Auth.grant as it would be were no role tied to
\* tables
excluded_never(role_name, context) == FALSE

\* the whitelist test of Auth.grant: the role names tables and the table
\* of the context is not among them
excluded(role_name, context) ==
    role[role_name] # {} /\ table(context) \notin role[role_name]

\* the entries Auth.grant discards after an insert, as they would be were
\* none discarded
grant_discards_none(group_id, context) == {}

\* the entries Auth.grant discards after an insert
grant_discards(group_id, context) == {KeyRoles(group_id, context)}

\* the insert of Auth.grant
InsertGrant(row) == rolegrant (+) SetToBag({row})

\* grant(user_group, role_name, context); is_user says whether user_group
\* is a UserMixin (then who is the user id) or a group (then who is its id)
grant(is_user, who, role_name, context) ==
    LET group_id == IF is_user THEN _get_user_group_id(who) ELSE who
        row == GrantRow(group_id, role_name, context)
    IN  /\ is_user => (private_groups(who) # {}
                       \/ Cardinality(DOMAIN usergroups) < MaxGroups)
        /\ usergroups' = IF is_user THEN _get_user_group_rows(who) ELSE usergroups
        /\ membership' = IF is_user THEN _get_user_group_members(who) ELSE membership
        /\ IF _get_role(role_name) = "None"
           THEN /\ ret' = Return("raise", "PermissionGrantError")
                /\ UNCHANGED rolegrant
                /\ Leaves(Reads({}, <<>>), {})
           ELSE IF excluded(role_name, context)
           THEN /\ ret' = Return("raise", "PermissionGrantError")
                /\ UNCHANGED rolegrant
                /\ Leaves(Reads({}, <<>>), {})
           ELSE IF ~existing_grant(row)
           THEN /\ BagCardinality(rolegrant) < MaxGrants
                /\ rolegrant' = InsertGrant(row)
                /\ Leaves(Reads({}, <<>>), grant_discards(group_id, context))
                /\ ret' = Return("bool", "True")
           ELSE /\ ret' = Return("bool", "False")
                /\ UNCHANGED rolegrant
                /\ Leaves(Reads({}, <<>>), {})
        /\ UNCHANGED <<tasks, role, permission, role_permission, actions>>

\* what can() allows now, worked out where a grant can still be stored
Remembered ==
    IF DOMAIN role # {} /\ BagCardinality(rolegrant) < MaxGrants THEN Decided ELSE {}

\* await auth.grant(user_group, role_name, context); before is what can()
\* allowed when the call was made, kept when the call stored a grant
grant_call(is_user, who, role_name, context, before) ==
    /\ grant(is_user, who, role_name, context)
    /\ called' = "grant"
    /\ allowed' = IF ret' = Return("bool", "True") THEN before ELSE {}

\* the delete of Auth.revoke as it would be were the context not compared
DeleteGrant_any_context(row) ==
    [q \in {x \in BagToSet(rolegrant) : x[1] # row[1] \/ x[2] # row[2]} |->
        rolegrant[q]]

\* the delete of Auth.revoke: every row equal to the quadruple
DeleteGrant(row) == [q \in BagToSet(rolegrant) \ {row} |-> rolegrant[q]]

revoke(group_id, role_name, context) ==
    /\ IF _get_role(role_name) = "None"
       THEN /\ UNCHANGED rolegrant
            /\ Leaves(Reads({}, <<>>), {})
       ELSE /\ rolegrant' = DeleteGrant(GrantRow(group_id, role_name, context))
            /\ Leaves(Reads({}, <<>>), {KeyRoles(group_id, context)})
    /\ ret' = Return("None", "None")
    /\ called' = "revoke"
    /\ allowed' = {}
    /\ UNCHANGED <<tasks, usergroups, membership, role, permission, role_permission,
                   actions>>

-----------------------------------------------------------------------------
(* Facade: reading operations, as calls *)

CanUsers == {1, 2}

CanActions == {"read", "write"}

CanContexts == {Context("City", 2), Context("Department", 1)}

HasInputs == {<<1, "read", Context("City", 2)>>, <<2, "read", GLOBAL_CONTEXT>>}

HeldInputs == {<<1, "read">>}

QueryTargets == {"City"}

QueryActions == {"read", "write"}

Outcome(r) == IF r \in {"True", "False"} THEN Return("bool", r) ELSE Return("raise", r)

\* await auth.can(user, action, context): the decision, and the default
\* checker left in the registry when none was registered
can_call(user, action, context) ==
    /\ ret' = Outcome(can(user, action, context))
    /\ actions' = Memoized(action, context.model)
    /\ Leaves(Plus(Reads({<<"_perms_to_roles">>}, <<>>),
                   Call_reads(_action_checker(action, context.model), user,
                              _user_groups(user), _resolve_permission(action),
                              context)),
              {})
    /\ called' = "can"
    /\ allowed' = {}
    /\ UNCHANGED <<tasks, usergroups, membership, role, permission, role_permission,
                   rolegrant>>

\* await auth.has_permission(user, permission_name, context)
has_permission_call(user, permission_name, context) ==
    /\ ret' = Return("bool", IF has_permission(user, permission_name, context)
                             THEN "True" ELSE "False")
    /\ Leaves(Reads({<<"_perms_to_roles">>}
                        \cup {KeyRoles(g, context) : g \in _user_groups(user)},
                    <<>>),
              {})
    /\ called' = "has_permission"
    /\ allowed' = {}
    /\ UNCHANGED <<tasks, usergroups, membership, role, permission, role_permission,
                   rolegrant, actions>>

\* await auth.contexts_by_permission(group_ids, permission_name)
contexts_by_permission_call(group_ids, permission_name) ==
    /\ ret' = Return("contexts", contexts_by_permission(group_ids, permission_name))
    /\ Leaves(Reads({<<"_perms_to_roles">>}, <<>>), {})
    /\ called' = "contexts_by_permission"
    /\ allowed' = {}
    /\ UNCHANGED <<tasks, usergroups, membership, role, permission, role_permission,
                   rolegrant, actions>>

\* the rows of await auth.accessible_query(user, select(target), action)
accessible_query_call(user, target, action) ==
    /\ ret' = Let(accessible_query(user, target, action), LAMBDA q :
                  IF q.exc # "" THEN Return("raise", q.exc)
                  ELSE Return("rows", Execute(q.val)))
    /\ actions' = Memoized(action, target)
    /\ ~shared
    /\ Leaves(Reads({}, <<>>), {})
    /\ called' = "accessible_query"
    /\ allowed' = {}
    /\ UNCHANGED <<tasks, usergroups, membership, role, permission, role_permission,
                   rolegrant>>

Next ==
    \/ \E i \in AssignInputs : assign(i[1], i[2])
    \/ \E i \in AssignInputs : unassign(i[1], i[2])
    \/ \E b \in BOOLEAN, n \in GlobalInputs : set_permission_global(b, n)
    \/ \E d \in {Remembered}, g \in GrantGroups, r \in RoleNames, c \in GrantContexts :
          grant_call(FALSE, g, r, c, d)
    \/ \E d \in {Remembered}, u \in GrantUsers, r \in RoleNames, c \in UserGrantContexts :
          grant_call(TRUE, u, r, c, d)
    \/ \E g \in RevokeGroups, r \in RoleNames,
          c \in GrantContexts \cup UserGrantContexts : revoke(g, r, c)
    \/ \E u \in CanUsers, a \in CanActions, c \in CanContexts : can_call(u, a, c)
    \/ \E i \in HasInputs : has_permission_call(i[1], i[2], i[3])
    \/ \E i \in HeldInputs : contexts_by_permission_call(_user_groups(i[1]), i[2])
    \/ \E u \in CanUsers, t \in QueryTargets, a \in QueryActions :
          accessible_query_call(u, t, a)

Spec == Init /\ [][Next]_vars

-----------------------------------------------------------------------------
(* The file system scenario: roles granted to groups on home folders *)

FsGroups == {1, 2}

FsContexts == {Context("Folder", 2), Context("Folder", 3)}

FsRecords == {Context("Folder", 1), Context("Folder", 4)}

NextFs ==
    \/ \E i \in AssignInputs : assign(i[1], i[2])
    \/ \E d \in {Remembered}, g \in FsGroups, r \in RoleNames, c \in FsContexts :
          grant_call(FALSE, g, r, c, d)
    \/ \E g \in FsGroups, r \in RoleNames, c \in FsContexts : revoke(g, r, c)
    \/ \E u \in CanUsers, c \in FsRecords : can_call(u, "read", c)
    \/ \E u \in CanUsers : accessible_query_call(u, "Folder", "read")

SpecFs == Init /\ [][NextFs]_vars

-----------------------------------------------------------------------------
(* The cache scenario: the calls of successive requests share one         *)
(* ContextManager, whose redis outlives the requests; folders only        *)

CacheAssigns == {<<"reader", <<"read", "write">>>>}

CacheGrants == {<<2, "reader", Context("Folder", 1)>>,
                <<2, "mayor", Context("Folder", 1)>>}

CacheCans == {<<2, "read", Context("Folder", 2)>>,
              <<1, "own", Context("Folder", 1)>>,
              <<1, "own", Context("Folder", 2)>>,
              <<2, "write", Context("Folder", 2)>>}

CacheHas == {<<2, "read", Context("Folder", 1)>>}

\* the edges looked at: one id, several ids, ids without a referent
CacheEdges == {<<ContextSet("Folder", <<1>>), "parent">>,
               <<ContextSet("Folder", <<2>>), "parent">>,
               <<ContextSet("Folder", <<1>>), "children">>,
               <<ContextSet("Folder", <<2, 3>>), "children">>,
               <<ContextSet("Folder", <<2, 3, 4>>), "owner_id">>,
               <<ContextSet("Folder", <<4>>), "owner_id">>}

CacheKeys == {<<"_perms_to_roles">>, <<"_global_permissions">>}
             \cup {KeyRoles(2, c) : c \in {Context("Folder", 1), Context("Folder", 2),
                                            GLOBAL_CONTEXT}}

InitCache ==
    /\ usergroups = [g \in {1, 2} |-> [owner_id |-> Null, is_personal |-> FALSE]]
    /\ membership = {<<1, 1>>, <<2, 1>>, <<2, 2>>}
       \* a role tied to the city table, stored by the application
    /\ role = [r \in {"mayor"} |-> {"city"}]
    /\ permission = <<>>
    /\ role_permission = {}
    /\ rolegrant = EmptyBag
    /\ actions = [m \in {"Folder"} |->
                    [a \in {"read", "own"} |->
                        IF a = "read" THEN Path("read", {<<"parent">>})
                        ELSE Owner(<<"children", "owner_id">>)]]
    /\ request = <<>>
    /\ redis = <<>>
    /\ shared = TRUE
    /\ warm = <<>>
    /\ ret = Return("None", "None")
    /\ called = "None"
    /\ allowed = {}
    /\ tasks = <<>>

\* what the reads give in the current state
Observed ==
    [functions |-> [k \in CacheKeys |-> request_cache(k)],
     edges |-> [e \in CacheEdges |-> _referent(e[1], e[2])],
     can |-> [x \in CacheCans |-> can(x[1], x[2], x[3])],
     has_permission |-> [x \in CacheHas |-> has_permission(x[1], x[2], x[3])],
     request |-> DOMAIN request,
     redis |-> DOMAIN redis]

\* async with context(): the next request starts with an empty
\* per-request tier
new_request ==
    /\ request # <<>>
    /\ request' = <<>>
    /\ warm' = <<>>
    /\ called' = "new_request"
    /\ ret' = Return("None", "None")
    /\ allowed' = {}
    /\ UNCHANGED <<tasks, usergroups, membership, role, permission, role_permission,
                   rolegrant, actions, redis, shared>>

\* a fresh ContextManager over the same database: both tiers are emptied
flush ==
    /\ redis # <<>>
    /\ request' = <<>>
    /\ redis' = <<>>
    /\ warm' = Observed
    /\ called' = "flush"
    /\ ret' = Return("None", "None")
    /\ allowed' = {}
    /\ UNCHANGED <<tasks, usergroups, membership, role, permission, role_permission,
                   rolegrant, actions, shared>>

NextCache ==
    \/ \E i \in CacheAssigns : assign(i[1], i[2])
    \/ \E b \in BOOLEAN, n \in GlobalInputs : set_permission_global(b, n)
    \/ \E x \in CacheGrants : grant_call(FALSE, x[1], x[2], x[3], {})
    \/ \E x \in CacheGrants : revoke(x[1], x[2], x[3])
    \/ \E x \in CacheCans : can_call(x[1], x[2], x[3])
    \/ \E x \in CacheHas : has_permission_call(x[1], x[2], x[3])
    \/ new_request
    \/ flush

SpecCache == InitCache /\ [][NextCache]_vars

-----------------------------------------------------------------------------
(* Schema inversion on its own: inverted_properties applied to a schema,   *)
(* then to its own result                                                 *)

\* what a schema may list for a model: nothing (no entry), or any set of
\* its relationship names and of the column "id"
Entries(M) == {<<>>} \cup {<<ps>> : ps \in SUBSET (DOMAIN relationships(M) \cup {"id"})}

\* the dict with the entries given
SchemaOf(e) == [m \in {x \in DOMAIN e : e[x] # <<>>} |-> e[m][1]]

InitInv ==
    /\ usergroups = <<>>
    /\ membership = {}
    /\ role = <<>>
    /\ permission = <<>>
    /\ role_permission = {}
    /\ rolegrant = EmptyBag
    /\ actions = <<>>
    /\ request = <<>>
    /\ redis = <<>>
    /\ shared = FALSE
    /\ warm = <<>>
    /\ called = "None"
    /\ tasks = <<>>
    /\ \E ci \in Entries("City"), de \in Entries("Department"),
          co \in Entries("Country"), fo \in Entries("Folder") :
          /\ ret = Return("dict", SchemaOf([m \in Models |->
                       CASE m = "City" -> ci [] m = "Department" -> de
                         [] m = "Country" -> co [] m = "Folder" -> fo]))
          /\ allowed = <<>>

\* inverted_properties(schema, registry) on the dict held, which is kept
\* in the history with the ones before it
inverted_properties_call ==
    /\ Len(allowed) < 2
    /\ ret' = Return("dict", inverted_properties(ret.val))
    /\ allowed' = Append(allowed, ret.val)
    /\ called' = "inverted_properties"
    /\ UNCHANGED <<tasks, usergroups, membership, role, permission, role_permission,
                   rolegrant, actions, request, redis, shared, warm>>

NextInv == inverted_properties_call

SpecInv == InitInv /\ [][NextInv]_vars

-----------------------------------------------------------------------------
(* Rewriting a statement the caller built: columns, joins, criteria, order *)

\* a select statement: selected columns, joins of its FROM, WHERE criteria
\* and ORDER BY, each in the order the generative calls added them
Select(target, cols, joins, wheres, order_by) ==
    [target |-> target, columns |-> cols, joins |-> joins,
     wheres |-> wheres, order_by |-> order_by]

\* get_target_table(query): the single table under the statement's FROM
get_target_table(query) ==
    IF Cardinality({query.target} \cup
                   {relationships(query.joins[i].prop.parent)[query.joins[i].prop.key].target :
                      i \in DOMAIN query.joins}) # 1
    THEN Exc("ValueError")
    ELSE Ok(query.target)

\* for prop in joins: query = query.outerjoin(prop.class_attribute)
Select_outerjoin(query, props) ==
    [query EXCEPT !.joins = @ \o [i \in DOMAIN props |->
                                     [isouter |-> TRUE, prop |-> props[i]]]]

\* a statement built afresh on the target with the one criterion
Select_where_fresh(query, criterion) ==
    Select(query.target, <<query.target>>, query.joins, <<criterion>>, <<>>)

\* query.where(criterion), query.filter(criterion)
Select_where(query, criterion) ==
    [query EXCEPT !.wheres = Append(@, criterion)]

\* Auth.accessible_query(user, query, action) on the caller's statement
accessible_query_of(user, query, action) ==
    Let(get_target_table(query), LAMBDA found :
        IF found.exc # "" THEN found
        ELSE
    Let(accessible_query(user, found.val, action), LAMBDA q :
        IF q.exc # "" THEN q
        ELSE IF q.val.where.kind = "absent" THEN Ok(query)
        ELSE Ok(Select_where(Select_outerjoin(query, q.val.joins), q.val.where))))

\* the statements handed to the rewriter: a bare select, one with its own
\* columns, criterion and ordering, one joined to a second table
Selects ==
    {Select("City", <<"City">>, <<>>, <<>>, <<>>),
     Select("City", <<"City.name", "City.id">>, <<>>,
            <<Const("City.name = 'Rome'")>>, <<"City.name">>),
     Select("Country", <<"Country.id">>, <<>>,
            <<Const("Country.id > 0")>>, <<"Country.id DESC">>),
     Select("City", <<"City">>,
            <<[isouter |-> FALSE, prop |-> Prop("City", "department")]>>,
            <<>>, <<"City.id">>)}

\* await auth.accessible_query(user, query, action)
accessible_query_of_call(user, query, action) ==
    /\ ret' = Let(accessible_query_of(user, query, action), LAMBDA q :
                  IF q.exc # "" THEN Return("raise", q.exc)
                  ELSE Return("query", q.val))
    /\ actions' = Let(get_target_table(query), LAMBDA found :
                      IF found.exc # "" THEN actions
                      ELSE Memoized(action, found.val))
    /\ ~shared
    /\ Leaves(Reads({}, <<>>), {})
    /\ called' = "accessible_query_of"
    /\ allowed' = <<query>>
    /\ UNCHANGED <<tasks, usergroups, membership, role, permission, role_permission,
                   rolegrant>>

NextQuery ==
    \/ \E i \in AssignInputs : assign(i[1], i[2])
    \/ \E d \in {Remembered}, g \in GrantGroups, r \in RoleNames, c \in GrantContexts :
          grant_call(FALSE, g, r, c, d)
    \/ \E u \in CanUsers, q \in Selects, a \in QueryActions :
          accessible_query_of_call(u, q, a)

SpecQuery == Init /\ [][NextQuery]_vars

-----------------------------------------------------------------------------
(* Concurrent requests: each a task with its own session, transaction and
   per-request tier; the committed tables and redis are what they share *)

Tasks == {1, 2}

\* the group and the record the concurrent calls are about
TaskGroups == {2}

TaskContexts == {Context("Country", 1)}

\* a task between two requests
Idle ==
    [op |-> "None", pc |-> "idle", row |-> <<>>, pending |-> EmptyBag,
     request |-> <<>>, began |-> {}, observed |-> {}]

InitTasks ==
    /\ usergroups = [g \in {1, 2} |-> [owner_id |-> Null, is_personal |-> FALSE]]
    /\ membership = {<<1, 1>>, <<2, 1>>, <<2, 2>>}
    /\ role = [r \in RoleNames |-> {}]
    /\ permission = <<>>
    /\ role_permission = {}
    /\ rolegrant = EmptyBag
    /\ actions = InitActions
    /\ request = <<>>
    /\ redis = <<>>
    /\ shared = TRUE
    /\ warm = <<>>
    /\ ret = Return("None", "None")
    /\ called = "None"
    /\ allowed = {}
    /\ tasks = [t \in Tasks |-> Idle]

\* the rolegrants rows a task's session sees: the committed ones and the
\* ones its own transaction inserted
Visible(t) == rolegrant (+) tasks[t].pending

\* the step of task t: the task and what is shared move as given, the rest
\* stays
Step(t, name, state, grants, store) ==
    /\ tasks' = [tasks EXCEPT ![t] = state]
    /\ rolegrant' = grants
    /\ redis' = store
    /\ called' = name
    /\ UNCHANGED <<usergroups, membership, role, permission, role_permission,
                   actions, request, shared, warm, ret, allowed>>

\* async with context(): await auth.grant(group, role_name, context), up to
\* the role and whitelist tests
begin_grant(t, group_id, role_name, context) ==
    /\ tasks[t].pc = "idle"
    /\ _get_role(role_name) # "None" /\ ~excluded(role_name, context)
    /\ Step(t, "begin_grant",
            [Idle EXCEPT !.op = "grant", !.pc = "select",
                         !.row = GrantRow(group_id, role_name, context),
                         !.began = BagToSet(rolegrant)],
            rolegrant, redis)

\* existing_grant = await session.execute(rolegrant.select().where(...))
grant_select(t) ==
    /\ tasks[t].pc = "select"
    /\ Step(t, "grant_select",
            [tasks[t] EXCEPT !.pc = IF BagIn(tasks[t].row, Visible(t))
                                    THEN "end" ELSE "insert"],
            rolegrant, redis)

\* await session.execute(rolegrant.insert().values(...))
grant_insert(t) ==
    /\ tasks[t].pc = "insert"
    /\ BagCardinality(rolegrant) + BagCardinality(tasks[1].pending)
         + BagCardinality(tasks[2].pending) < MaxGrants
    /\ Step(t, "grant_insert",
            [tasks[t] EXCEPT !.pc = "discard",
                             !.pending = @ (+) SetToBag({tasks[t].row})],
            rolegrant, redis)

\* the key of the entry a task's grant or read is about
KeyOf(row) == <<"_contextual_roles", row[1], row[3], row[4]>>

\* await self._contextual_roles.discard(self, user_group.id, context)
grant_discard(t) ==
    /\ tasks[t].pc = "discard"
    /\ Step(t, "grant_discard",
            [tasks[t] EXCEPT !.pc = "end",
                             !.request = discard(@, {KeyOf(tasks[t].row)})],
            rolegrant, discard(redis, {KeyOf(tasks[t].row)}))

\* async with context(): await auth._contextual_roles(group_id, context)
begin_read(t, group_id, context) ==
    /\ tasks[t].pc = "idle"
    /\ Step(t, "begin_read",
            [Idle EXCEPT !.op = "read", !.pc = "read",
                         !.row = GrantRow(group_id, "None", context),
                         !.began = BagToSet(rolegrant)],
            rolegrant, redis)

\* _contextual_roles under its decorators, in the session of task t
contextual_roles_in(t, k) ==
    IF k \in DOMAIN tasks[t].request THEN tasks[t].request[k]
    ELSE IF k \in DOMAIN redis THEN loads(redis[k])
    ELSE {x[2] : x \in {q \in BagToSet(Visible(t)) :
                          q[1] = k[2] /\ q[3] = k[3] /\ q[4] = k[4]}}

read(t) ==
    /\ tasks[t].pc = "read"
    /\ LET k == KeyOf(tasks[t].row)
           v == contextual_roles_in(t, k)
       IN  Step(t, "read",
                [tasks[t] EXCEPT !.pc = "end", !.observed = v,
                                 !.request = [j \in DOMAIN @ \cup {k} |-> v]],
                rolegrant,
                IF k \in DOMAIN tasks[t].request \cup DOMAIN redis THEN redis
                ELSE [j \in DOMAIN redis \cup {k} |->
                         IF j = k THEN dumps(v) ELSE redis[j]])

\* the request ends and its transaction commits
commit(t) ==
    /\ tasks[t].pc = "end"
    /\ Step(t, "commit", Idle, Visible(t), redis)

\* the commit fails: the transaction is rolled back
rollback(t) ==
    /\ tasks[t].pc = "end"
    /\ tasks[t].pending # EmptyBag
    /\ Step(t, "rollback", Idle, rolegrant, redis)

NextTasks ==
    \/ \E t \in Tasks, g \in TaskGroups, r \in RoleNames, c \in TaskContexts :
          begin_grant(t, g, r, c)
    \/ \E t \in Tasks : grant_select(t)
    \/ \E t \in Tasks : grant_insert(t)
    \/ \E t \in Tasks : grant_discard(t)
    \/ \E t \in Tasks, g \in TaskGroups, c \in TaskContexts : begin_read(t, g, c)
    \/ \E t \in Tasks : read(t)
    \/ \E t \in Tasks : commit(t)
    \/ \E t \in Tasks : rollback(t)

SpecTasks == InitTasks /\ [][NextTasks]_vars

-----------------------------------------------------------------------------
(* recursive_traverse as a loop, over every content of a self-referencing
   table: one step per iteration of its while True *)

FolderIds == {1, 2, 3}

\* _referent along a self-reference, with parent_id read from the rows
\* given: the ids the attribute resolves to from the ids of current
referent_in(rows, current, attribute) ==
    IF attribute = "parent"
    THEN {rows[i] : i \in current} \ {Null}
    ELSE {j \in DOMAIN rows : rows[j] \in current}

\* the coroutine at its start: current = object, ret = set()
InitLoop ==
    /\ usergroups = <<>>
    /\ membership = {}
    /\ role = <<>>
    /\ permission = <<>>
    /\ role_permission = {}
    /\ rolegrant = EmptyBag
    /\ actions = <<>>
    /\ request = <<>>
    /\ redis = <<>>
    /\ shared = FALSE
    /\ warm = <<>>
    /\ ret = Return("None", "None")
    /\ called = "None"
    /\ allowed = {}
    /\ \E rows \in [FolderIds -> FolderIds \cup {Null}], object \in FolderIds,
          attribute \in {"parent", "children"} :
          tasks = <<[op |-> "recursive_traverse", pc |-> "while",
                     rows |-> rows, attribute |-> attribute,
                     current |-> {object}, ret |-> {}, fresh |-> TRUE]>>

\* one iteration: many, current = await _referent(current, attribute);
\* if not current: break; ret.add(current). fresh records whether the
\* step met an id that no earlier step had met
recursive_traverse_step ==
    /\ tasks[1].pc = "while"
    /\ LET current == referent_in(tasks[1].rows, tasks[1].current, tasks[1].attribute)
       IN  IF current = {}
           THEN /\ tasks' = <<[tasks[1] EXCEPT !.pc = "return"]>>
                /\ ret' = IF tasks[1].ret # {}
                          THEN Return("tuple", <<"True", ContextSet_join("Folder", UNION tasks[1].ret)>>)
                          ELSE Return("tuple", <<"False", None>>)
           ELSE /\ tasks' = <<[tasks[1] EXCEPT
                                 !.current = current,
                                 !.ret = @ \cup {current},
                                 !.fresh = ~(current \subseteq UNION tasks[1].ret)]>>
                /\ UNCHANGED ret
    /\ called' = "recursive_traverse"
    /\ UNCHANGED <<usergroups, membership, role, permission, role_permission,
                   rolegrant, actions, request, redis, shared, warm, allowed>>

NextLoop == recursive_traverse_step

SpecLoop == InitLoop /\ [][NextLoop]_vars

FairLoop == SpecLoop /\ WF_vars(NextLoop)

-----------------------------------------------------------------------------
(* Default checkers over every propagation schema: allowed holds the
   inverted schema the Auth object was built with *)

\* tree_explore of _explode_partial_schema over a given inverted schema;
\* fuel is the depth left: a descent deeper than the number of models has
\* met a model twice and never returns
RECURSIVE tree_explore_in(_, _, _)
tree_explore_in(schema, node, fuel) ==
    IF node \notin DOMAIN schema THEN Ok({})
    ELSE IF fuel = 0 THEN Exc("RecursionError")
    ELSE Let([child \in schema[node] |->
                 tree_explore_in(schema, relationships(node)[child].target,
                                 fuel - 1)], LAMBDA subs :
         IF \E child \in DOMAIN subs : subs[child].exc # ""
         THEN Exc("RecursionError")
         ELSE Ok(UNION {{<<child>>} \cup
                        {<<child>> \o sub : sub \in subs[child].val} :
                          child \in DOMAIN subs}))

\* Auth(Base, propagation_schema=schema, actions=...)
InitExplode ==
    /\ usergroups = <<>>
    /\ membership = {}
    /\ role = <<>>
    /\ permission = <<>>
    /\ role_permission = {}
    /\ rolegrant = EmptyBag
    /\ actions = InitActions
    /\ request = <<>>
    /\ redis = <<>>
    /\ shared = FALSE
    /\ warm = <<>>
    /\ ret = Return("None", "None")
    /\ called = "None"
    /\ tasks = <<>>
    /\ \E ci \in SUBSET DOMAIN relationships("City"),
          de \in SUBSET DOMAIN relationships("Department"),
          co \in SUBSET DOMAIN relationships("Country"),
          fo \in SUBSET DOMAIN relationships("Folder") :
          allowed = <<inverted_properties(
                        SchemaOf([m \in Models |->
                                    CASE m = "City" -> <<ci>>
                                      [] m = "Department" -> <<de>>
                                      [] m = "Country" -> <<co>>
                                      [] m = "Folder" -> <<fo>>]))>>

\* whether the registry holds a checker for the pair
Stored(action, model_name) ==
    model_name \in DOMAIN actions /\ action \in DOMAIN actions[model_name]

\* auth._action_checker(action, model_name)
_action_checker_call(action, model_name) ==
    /\ LET paths == tree_explore_in(allowed[1], model_name, Cardinality(Models))
           perm == Or(<<Global(action), Path(action, paths.val)>>)
       IN  IF Stored(action, model_name)
           THEN /\ ret' = Return("checker", actions[model_name][action])
                /\ UNCHANGED actions
           ELSE IF paths.exc # ""
           THEN /\ ret' = Return("raise", paths.exc)
                /\ actions' = [m \in DOMAIN actions \cup {model_name} |->
                                 IF m \in DOMAIN actions THEN actions[m] ELSE <<>>]
           ELSE /\ ret' = Return("checker", perm)
                /\ actions' = [m \in DOMAIN actions \cup {model_name} |->
                                 IF m # model_name THEN actions[m]
                                 ELSE LET known == IF m \in DOMAIN actions
                                                   THEN actions[m] ELSE <<>>
                                      IN  [a \in DOMAIN known \cup {action} |->
                                             IF a = action THEN perm ELSE known[a]]]
    /\ called' = "_action_checker"
    /\ UNCHANGED <<tasks, usergroups, membership, role, permission,
                   role_permission, rolegrant, request, redis, shared, warm,
                   allowed>>

NextExplode ==
    \E a \in QueryActions, M \in Models : _action_checker_call(a, M)

SpecExplode == InitExplode /\ [][NextExplode]_vars

-----------------------------------------------------------------------------
(* Properties: what the stored tables say, read without the facade *)

AllContexts == Records \cup {GLOBAL_CONTEXT}

\* some group of u holds, exactly in context c, a role bearing p
HeldAt(u, p, c) ==
    \E m \in membership, rp \in role_permission, q \in BagToSet(rolegrant) :
        /\ m[2] = u /\ rp[2] = p
        /\ q = <<m[1], rp[1], c.id, tablename(c.model)>>

\* the contexts met from the rows ids of M along path, every prefix included
RECURSIVE Along(_, _, _)
Along(M, ids, path) ==
    IF path = <<>> THEN {}
    ELSE LET p == Prop(M, Head(path))
             next == UNION {Related(p, i) : i \in ids}
         IN  {Context(prop_target(p), j) : j \in next}
             \cup Along(prop_target(p), next, Tail(path))

\* r itself and every context a declared path of the Path checker c leads to
Covering(c, r) ==
    {r} \cup UNION {Along(r.model, {r.id}, path) : path \in Range(all_paths(c.paths))}

Registered(a, M) == M \in DOMAIN InitActions /\ a \in DOMAIN InitActions[M]

\* the checker of (p, M) is the synthesized default
Synthesized(p, M) == ~Registered(p, M) /\ _action_checker(p, M) = DefaultChecker(p, M)

\* built from Path, Owner, Group, Global and Or only
RECURSIVE Rewritable(_)
Rewritable(c) ==
    \/ c.kind \in {"Path", "Owner", "Group", "Global"}
    \/ c.kind = "Or" /\ \A i \in DOMAIN c.checkers : Rewritable(c.checkers[i])

\* C1: for every user, action and model whose checker is built from
\* Path/Owner/Group/Global/Or, the rewritten query runs and returns exactly
\* the ids of the records on which can() is true
C1_CheckRewriteEquivalence ==
    \A u \in Users, a \in Actions, M \in Models :
        Rewritable(_action_checker(a, M)) =>
            LET q == accessible_query(u, M, a)
            IN  q.exc = "" /\ Execute(q.val) = Allowed(u, M, a)

\* C2: with Path(p, paths) registered for a model, can(u, p, r) is true
\* exactly when r or a context reached along a declared path or a prefix of
\* one carries a grant, to a group of u, of a role bearing p
C2_PathExact ==
    \A u \in Users, p \in PermissionNames, r \in Records :
        LET c == _action_checker(p, r.model)
        IN  (c.kind = "Path" /\ c.permission = p) =>
                ((can(u, p, r) = "True") <=> \E x \in Covering(c, r) : HeldAt(u, p, x))

\* C2 witness: a grant on the Country alone, beyond the only path declared
\* for City, leaves the City refused while the Country itself is allowed
C2_Witness ==
    /\ HeldAt(1, "read", Context("Country", 1))
    /\ \A x \in AllContexts : HeldAt(1, "read", x) => x = Context("Country", 1)
    /\ can(1, "read", Context("City", 1)) = "False"
    /\ can(1, "read", Context("Country", 1)) = "True"
    /\ can(1, "read", Context("Department", 1)) = "True"

\* C3: a grant in the global context of a role bearing p to a group of u
\* makes can(u, p, r) true for every record of every model whose checker
\* for p is the synthesized default
C3_GlobalGrantImpliesAccess ==
    \A u \in Users, p \in PermissionNames, r \in Records :
        (Synthesized(p, r.model) /\ HeldAt(u, p, GLOBAL_CONTEXT)) =>
            can(u, p, r) = "True"

C3_Witness ==
    /\ HeldAt(2, "write", GLOBAL_CONTEXT)
    /\ Synthesized("write", "Department")
    /\ "write" \notin _global_permissions
    /\ can(2, "write", Context("Department", 2)) = "True"

\* C4: while p is flagged global, a user holding a role bearing p in any
\* context is allowed on every record under the default checker; while it
\* is not flagged, the decision is the global-context grants and the grants
\* on the contexts the default paths lead to, nothing else
C4_GlobalFlag ==
    \A u \in Users, p \in PermissionNames, r \in Records :
        Synthesized(p, r.model) =>
            LET c == _action_checker(p, r.model)
                held == \E x \in AllContexts : HeldAt(u, p, x)
                propagated == \/ HeldAt(u, p, GLOBAL_CONTEXT)
                              \/ \E x \in Covering(c.checkers[2], r) : HeldAt(u, p, x)
            IN  IF p \in DOMAIN permission /\ permission[p]
                THEN held => can(u, p, r) = "True"
                ELSE (can(u, p, r) = "True") <=> propagated

\* C4 witness: write is flagged global, user 1 holds it on City 2 only, and
\* is allowed on a Department no path connects to that City
C4_Witness ==
    /\ "write" \in DOMAIN permission /\ permission["write"]
    /\ HeldAt(1, "write", Context("City", 2))
    /\ \A x \in AllContexts : HeldAt(1, "write", x) => x = Context("City", 2)
    /\ Synthesized("write", "Department")
    /\ can(1, "write", Context("Department", 1)) = "True"

C6_HasPermissionDirect ==
    \A u \in Users, p \in PermissionNames, c \in AllContexts :
        has_permission(u, p, c) <=> HeldAt(u, p, c)

\* C6 witness: the grant sits on the Department, and has_permission says
\* yes there and no on the City below it, which can() allows
C6_Witness ==
    /\ has_permission(1, "read", Context("Department", 1))
    /\ ~has_permission(1, "read", Context("City", 1))
    /\ can(1, "read", Context("City", 1)) = "True"

\* the (model, id) pairs of a set of ContextSets
Members(cs) == UNION {{<<x.model, i>> : i \in Range(x.ids)} : x \in cs}

\* C7: contexts_by_permission gives, one ContextSet per table, exactly the
\* non-global contexts in which a group of the user holds a role bearing p
C7_ContextsByPermissionExact ==
    \A u \in Users, p \in PermissionNames :
        LET cs == contexts_by_permission(_user_groups(u), p)
        IN  /\ Members(cs) = {<<r.model, r.id>> : r \in {x \in Records : HeldAt(u, p, x)}}
            /\ \A x, y \in cs : x.model = y.model => x = y
            /\ \A x \in cs : x.model \in Models /\ x.ids # <<>>

\* C7 witness: user 2 holds read globally and on a Country; user 1 holds
\* more through the personal group; the call returned the Country alone
C7_Witness ==
    /\ HeldAt(2, "read", GLOBAL_CONTEXT)
    /\ HeldAt(2, "read", Context("Country", 1))
    /\ contexts_by_permission(_user_groups(2), "read") = {ContextSet("Country", <<1>>)}
    /\ \E r \in RoleNames : <<r, "read">> \notin role_permission

\* nothing in the checker tree permits anything to the user: no permitted
\* context for a Path, no true Global
RECURSIVE PermitsNothing(_, _)
PermitsNothing(c, u) ==
    CASE c.kind = "Path" -> contexts_by_permission(_user_groups(u), c.permission) = {}
      [] c.kind = "Global" ->
           Global_call(c, _user_groups(u), _resolve_permission(c.permission)) # "True"
      [] c.kind = "Or" -> \A i \in DOMAIN c.checkers : PermitsNothing(c.checkers[i], u)
      [] OTHER -> FALSE

\* C8: when the checker permits nothing to the user, accessible_query does
\* not raise and returns the query constrained with WHERE false
C8_DegenerateDeny ==
    \A u \in Users, a \in Actions, M \in Models :
        PermitsNothing(_action_checker(a, M), u) =>
            accessible_query(u, M, a) = Ok(Query(M, <<>>, Const("False")))

\* a Global checker of the tree is true for the user's groups
RECURSIVE GlobalTrue(_, _)
GlobalTrue(c, u) ==
    CASE c.kind = "Global" ->
           Global_call(c, _user_groups(u), _resolve_permission(c.permission)) = "True"
      [] c.kind = "Or" -> \E i \in DOMAIN c.checkers : GlobalTrue(c.checkers[i], u)
      [] OTHER -> FALSE

\* C9: when a Global checker of the tree is true for the user,
\* accessible_query does not raise and returns the query with no join and
\* no filter added
C9_DegenerateAllow ==
    \A u \in Users, a \in Actions, M \in Models :
        GlobalTrue(_action_checker(a, M), u) =>
            accessible_query(u, M, a) = Ok(Query(M, <<>>, Const("absent")))

\* C10: with a Path checker, the records of the target model that are
\* themselves permitted contexts are among the rows of the rewritten query
C10_DirectGrantsSurvive ==
    \A u \in Users, a \in Actions, M \in Models :
        LET c == _action_checker(a, M)
            direct == {r \in RowIds(M) :
                         <<M, r>> \in Members(contexts_by_permission(_user_groups(u),
                                                                     c.permission))}
            q == accessible_query(u, M, a)
        IN  (c.kind = "Path" /\ direct # {}) =>
                (q.exc = "" /\ direct \subseteq Execute(q.val))

\* a folder and the folders above it, read off the parent_id column
RECURSIVE Ancestors(_)
Ancestors(i) ==
    IF Col("Folder", "parent_id", i) = Null THEN {i}
    ELSE {i} \cup Ancestors(Col("Folder", "parent_id", i))

\* the folders on which a group of u holds a role bearing read, and below
Subtrees(u) ==
    {f \in RowIds("Folder") :
        \E F \in Ancestors(f) : HeldAt(u, "read", Context("Folder", F))}

\* C11: with Path('read', 'parent') on Folder, once read is granted on a
\* folder, can(u, 'read', f) is true exactly for the granted folders and
\* their descendants, and the rewritten select(Folder) returns exactly them
C11_RecursivePropagation ==
    \A u \in Users :
        Subtrees(u) # {} =>
            LET q == accessible_query(u, "Folder", "read")
            IN  /\ Allowed(u, "Folder", "read") = Subtrees(u)
                /\ q.exc = ""
                /\ Execute(q.val) = Subtrees(u)

\* the column value at the end of an attribute path from row i of M, read
\* off the foreign keys; NULL when a relation on the way is not set
RECURSIVE Follow(_, _, _)
Follow(M, i, path) ==
    IF Len(path) = 1 THEN Col(M, path[1], i)
    ELSE LET rel == relationships(M)[path[1]]
             next == Col(M, rel.fk, i)
         IN  IF next = Null THEN Null ELSE Follow(rel.target, next, Tail(path))

Owned(u, M, path) == {i \in RowIds(M) : Follow(M, i, path) = u}

\* C12: with Owner(path) as the checker of (M, a), can(u, a, r) is true
\* exactly when the column at the end of path from r holds u.id, and the
\* rewritten select(M) runs and returns exactly those rows, for a path of
\* one part as for a longer one
C12_OwnerExact ==
    \A u \in Users, a \in Actions, M \in Models :
        LET c == _action_checker(a, M)
            q == accessible_query(u, M, a)
        IN  c.kind = "Owner" =>
                /\ Allowed(u, M, a) = Owned(u, M, c.on)
                /\ q.exc = ""
                /\ Execute(q.val) = Owned(u, M, c.on)

\* a checker and every checker below it
RECURSIVE Nodes(_)
Nodes(c) == {c} \cup UNION {Nodes(c.checkers[i]) : i \in DOMAIN c.checkers}

\* C13: wherever the checker of (M, a) holds an And or a Not, that node,
\* called as can() calls it, gives the conjunction of what its children
\* give, respectively the negation of what its child gives, and raises
\* nothing when the children raise nothing
C13_AndNotEvaluate ==
    \A u \in Users, a \in Actions, r \in Records :
        \A n \in Nodes(_action_checker(a, r.model)) :
            LET g == _user_groups(u)
                ro == _resolve_permission(a)
                child(i) == Call(n.checkers[i], u, g, ro, r)
                sound == \A i \in DOMAIN n.checkers : child(i) \in {"True", "False"}
                all == \A i \in DOMAIN n.checkers : child(i) = "True"
            IN  /\ (n.kind = "And" /\ sound) =>
                    Call(n, u, g, ro, r) = (IF all THEN "True" ELSE "False")
                /\ (n.kind = "Not" /\ sound) =>
                    Call(n, u, g, ro, r) = (IF all THEN "False" ELSE "True")

\* C14: when the checker of (M, a) holds a Not or an And, accessible_query
\* raises nothing and returns the target restricted to an explicit list of
\* ids or to false, selecting exactly the rows can() allows one by one
C14_NotRewritableFallback ==
    \A u \in Users, a \in Actions, M \in Models :
        (\E n \in Nodes(_action_checker(a, M)) : n.kind \in {"Not", "And"}) =>
            LET q == accessible_query(u, M, a)
            IN  /\ q.exc = ""
                /\ q.val.where.kind \in {"in", "False"}
                /\ Execute(q.val) = Allowed(u, M, a)

\* the copies of a quadruple among the stored grants
Copies(row, grants) == IF row \in DOMAIN grants THEN grants[row] ELSE 0

Quadruple(group_id, role_name, c) == <<group_id, role_name, c.id, tablename(c.model)>>

\* every call the scenarios make of grant: by group, or by user
GrantCalls ==
    ({FALSE} \X (GrantGroups \cup FsGroups) \X RoleNames \X (GrantContexts \cup FsContexts))
    \cup ({TRUE} \X GrantUsers \X RoleNames \X UserGrantContexts)

\* C15: a grant that is not rejected leaves exactly one copy of its
\* quadruple and every other quadruple as it was; it returns true when the
\* quadruple was not stored and false, changing nothing, when it was
C15_GrantIdempotent ==
    [][\A x \in GrantCalls :
          LET row == Quadruple(IF x[1] THEN _get_user_group_id(x[2]) ELSE x[2],
                               x[3], x[4])
          IN  (/\ called' = "grant" /\ ret'.kind # "raise"
               /\ grant(x[1], x[2], x[3], x[4])) =>
                  /\ Copies(row, rolegrant') = 1
                  /\ \A q \in (DOMAIN rolegrant \cup DOMAIN rolegrant') \ {row} :
                        Copies(q, rolegrant') = Copies(q, rolegrant)
                  /\ ret' = Return("bool", IF Copies(row, rolegrant) = 0
                                           THEN "True" ELSE "False")
                  /\ Copies(row, rolegrant) > 0 => rolegrant' = rolegrant]_vars

\* C15 witness: a grant was re-issued on a stored quadruple and said false
C15_Witness ==
    /\ called = "grant"
    /\ ret = Return("bool", "False")
    /\ BagCardinality(rolegrant) = 2

\* every call the scenarios make of revoke
RevokeCalls ==
    (RevokeGroups \cup FsGroups) \X RoleNames
    \X (GrantContexts \cup UserGrantContexts \cup FsContexts)

\* C17: revoke raises nothing; after it no copy of its quadruple is stored
\* and every other quadruple is stored as before; with a role that does not
\* exist, or a quadruple that is not stored, the table is unchanged
C17_RevokeExact ==
    [][\A x \in RevokeCalls :
          LET row == Quadruple(x[1], x[2], x[3])
          IN  (called' = "revoke" /\ revoke(x[1], x[2], x[3])) =>
                  /\ ret' = Return("None", "None")
                  /\ Copies(row, rolegrant') = 0
                  /\ \A q \in (DOMAIN rolegrant \cup DOMAIN rolegrant') \ {row} :
                        Copies(q, rolegrant') = Copies(q, rolegrant)
                  /\ (x[2] \notin DOMAIN role \/ Copies(row, rolegrant) = 0) =>
                        rolegrant' = rolegrant]_vars

\* C17 witness: a revoke has returned, leaving one grant of a group that
\* holds the same role in no other context
C17_Witness ==
    /\ called = "revoke"
    /\ BagCardinality(rolegrant) = 1
    /\ \E q \in BagToSet(rolegrant) : q[1] = 2 /\ q[4] = "global"


\* C18: unassign removes exactly the named assignments: the call returns
\* without an error, no (role, p) assignment with p among the named
\* permissions remains, and every other assignment is unchanged.
C18_UnassignExact ==
    [][\A i \in AssignInputs :
          (called' = "unassign" /\ unassign(i[1], i[2])) =>
              /\ ret'.kind # "raise"
              /\ \A p \in Range(i[2]) : <<i[1], p>> \notin role_permission'
              /\ \A q \in role_permission \cup role_permission' :
                    (q[1] # i[1] \/ q[2] \notin Range(i[2])) =>
                        (q \in role_permission' <=> q \in role_permission)]_vars

\* C16: a grant naming a role that does not exist, or a role whose
\* non-empty tables whitelist lacks the table of the context, raises
\* PermissionGrantError, stores no grant row and removes no entry from
\* either cache tier; a role whose tables are unset is never refused
C16_RejectedGrant ==
    [][\A x \in CacheGrants :
          (called' = "grant" /\ grant(FALSE, x[1], x[2], x[3])) =>
              /\ (\/ x[2] \notin DOMAIN role
                  \/ (role[x[2]] # {} /\ tablename(x[3].model) \notin role[x[2]])) =>
                     /\ ret' = Return("raise", "PermissionGrantError")
                     /\ rolegrant' = rolegrant
                     /\ request' = request
                     /\ redis' = redis
              /\ (x[2] \in DOMAIN role /\ role[x[2]] = {}) => ret'.kind # "raise"]_vars

\* C16 witness: with reader assigned, granted on Folder 1 and the role set
\* of (group 2, Folder 1) cached in both tiers, a grant was refused: that of
\* mayor, tied to the city table, on Folder 1
C16_Witness ==
    /\ called = "grant"
    /\ ret = Return("raise", "PermissionGrantError")
    /\ "reader" \in DOMAIN role
    /\ BagIn(<<2, "reader", 1, "folders">>, rolegrant)
    /\ KeyRoles(2, Context("Folder", 1)) \in DOMAIN request \cap DOMAIN redis

\* what the stored tables entitle user u to, for the checkers of the cache
\* scenario: read runs up the parent folders; write is the default checker
Entitled(u, a, r) ==
    IF a = "read"
    THEN \E f \in Ancestors(r.id) : HeldAt(u, a, Context("Folder", f))
    ELSE IF a \in DOMAIN permission /\ permission[a]
    THEN \E x \in AllContexts : HeldAt(u, a, x)
    ELSE HeldAt(u, a, GLOBAL_CONTEXT) \/ HeldAt(u, a, r)

\* C19: once grant, revoke or assign has returned, can and has_permission
\* decide by the tables as the call left them, whatever the two tiers
\* held before the call
C19_ReadYourWrites ==
    called \in {"grant", "revoke", "assign"} =>
        /\ \A x \in CacheHas :
              has_permission(x[1], x[2], x[3]) <=> HeldAt(x[1], x[2], x[3])
        /\ \A x \in {y \in CacheCans : y[2] \in {"read", "write"}} :
              (can(x[1], x[2], x[3]) = "True") <=> Entitled(x[1], x[2], x[3])

\* C19 witness: a grant on Folder 1 has just been stored while the role
\* set of (group 2, Folder 1) and the permission map were held by the
\* per-request tier, and the folder below is now readable
C19_Witness ==
    /\ called = "grant"
    /\ ret = Return("bool", "True")
    /\ KeyRoles(2, Context("Folder", 1)) \in warm.request
    /\ <<"_perms_to_roles">> \in DOMAIN request
    /\ can(2, "read", Context("Folder", 2)) = "True"

\* C20: the reads give the same with both tiers empty as they gave with
\* the tiers as they were before they were emptied: the cached functions,
\* _referent on every edge, can and has_permission
C20_CacheTransparency ==
    called = "flush" =>
        /\ warm.functions = Observed.functions
        /\ warm.edges = Observed.edges
        /\ warm.can = Observed.can
        /\ warm.has_permission = Observed.has_permission

\* C20 witness: the tiers emptied held the owner of Folder 4 but not that
\* of Folders 2 and 3, the parent of Folder 1 (it has none), the role set
\* of (group 2, Folder 1) in the shared tier only and the permission map
\* in both, and Folder 2 was readable
C20_Witness ==
    /\ called = "flush"
    /\ EdgeKey("Folder", "owner_id", 4) \in warm.redis
    /\ EdgeKey("Folder", "owner_id", 2) \notin warm.redis
    /\ EdgeKey("Folder", "parent", 1) \in warm.redis
    /\ KeyRoles(2, Context("Folder", 1)) \in warm.redis \ warm.request
    /\ <<"_perms_to_roles">> \in warm.request
    /\ warm.can[<<2, "read", Context("Folder", 2)>>] = "True"

\* the schemas in which every model listed lists at least one property and
\* every property listed is a relationship of the model
Relational(schema) ==
    \A m \in DOMAIN schema :
        schema[m] # {} /\ schema[m] \subseteq DOMAIN relationships(m)

WellFormed(cs) ==
    /\ Len(cs.ids) >= 1
    /\ \A i, j \in DOMAIN cs.ids : cs.ids[i] = cs.ids[j] => i = j

\* C22: every ContextSet the engine hands out has at least one id and no
\* id twice: the ones of contexts_by_permission for every user and
\* permission, and the referents of every relationship of every record
C22_ContextSetWellFormed ==
    /\ \A u \in Users, p \in PermissionNames :
          \A cs \in contexts_by_permission(_user_groups(u), p) : WellFormed(cs)
    /\ \A r \in Records : \A a \in DOMAIN relationships(r.model) :
          Let(_referent(AsSet(r), a), LAMBDA v :
              v = None \/ Aborts(v) \/ WellFormed(v))

\* C23: can() answers True or False, and never lets an exception out, for
\* every user, every action and every record
C23_DenyByDefault ==
    \A u \in Users, a \in Actions, r \in Records :
        can(u, a, r) \in {"True", "False"}

\* C24: a statement returned by the rewriter keeps the target, the columns
\* and the ordering of the statement it was given, begins with that
\* statement's joins and criteria in their order, and adds to them only left
\* outer joins and further criteria
C24_RewriterOnlyAppends ==
    (called = "accessible_query_of" /\ ret.kind = "query") =>
        LET given == allowed[1]
            got == ret.val
        IN  /\ got.target = given.target
            /\ got.columns = given.columns
            /\ got.order_by = given.order_by
            /\ Len(got.joins) >= Len(given.joins)
            /\ SubSeq(got.joins, 1, Len(given.joins)) = given.joins
            /\ \A i \in DOMAIN got.joins : i > Len(given.joins) => got.joins[i].isouter
            /\ Len(got.wheres) >= Len(given.wheres)
            /\ SubSeq(got.wheres, 1, Len(given.wheres)) = given.wheres

C24_Witness ==
    /\ called = "accessible_query_of"
    /\ ret.kind = "query"
    /\ allowed[1].wheres # <<>>
    /\ allowed[1].order_by # <<>>
    /\ Len(allowed[1].columns) = 2
    /\ Len(ret.val.joins) > 0
    /\ Len(ret.val.wheres) = 2

\* C25: a request that begins once a grant to a group on a context is
\* committed reads the granted role in _contextual_roles of that group and
\* context; and no request has discarded the entry while the rows it
\* inserted are still uncommitted
C25_NoStaleAfterCommit ==
    /\ \A t \in Tasks :
          (tasks[t].op = "read" /\ tasks[t].pc = "end") =>
              \A q \in tasks[t].began :
                  KeyOf(q) = KeyOf(tasks[t].row) => q[2] \in tasks[t].observed
    /\ \A t \in Tasks :
          (tasks[t].op = "grant" /\ tasks[t].pc = "end") =>
              tasks[t].pending = EmptyBag

\* C26: the committed rolegrants rows hold no quadruple twice
C26_GrantUnique ==
    \A q \in BagToSet(rolegrant) : Copies(q, rolegrant) = 1

\* the personal groups a user owns in a table of groups
PersonalOf(u, groups) ==
    {g \in DOMAIN groups : groups[g].is_personal /\ groups[g].owner_id = u}

\* C27: after every step each user owns at most one personal group and is
\* a member of it; and a grant to a user that returns True stores one more
\* copy of the quadruple of that group, and no other row
C27_OnePersonalGroup ==
    [][\A u \in Users :
          /\ Cardinality(PersonalOf(u, usergroups')) <= 1
          /\ \A g \in PersonalOf(u, usergroups') : <<g, u>> \in membership'
          /\ \A r \in RoleNames, c \in UserGrantContexts :
                (called' = "grant" /\ grant(TRUE, u, r, c)
                   /\ ret' = Return("bool", "True")) =>
                    \E g \in PersonalOf(u, usergroups') :
                        /\ Copies(GrantRow(g, r, c), rolegrant')
                             = Copies(GrantRow(g, r, c), rolegrant) + 1
                        /\ \A q \in DOMAIN rolegrant' \ {GrantRow(g, r, c)} :
                              Copies(q, rolegrant') = Copies(q, rolegrant)]_vars

\* C27 witness: after a rejected grant made the personal group of user 1, a
\* grant to the user has stored a row against that group
C27_Witness ==
    /\ called = "grant"
    /\ ret = Return("bool", "True")
    /\ Cardinality(PersonalOf(1, usergroups)) = 1
    /\ \E g \in PersonalOf(1, usergroups) :
          /\ <<g, 1>> \in membership
          /\ \E q \in BagToSet(rolegrant) : q[1] = g

\* C28: for every Or checker whose joins and where raise nothing, joins
\* lists each relation of the children once, only relations, and all of
\* them; where is True when a child's where is True, else the one
\* predicate left once the children without predicate are dropped, else the
\* disjunction of the predicates left
C28_OrRewrite ==
    \A u \in Users, a \in Actions, M \in Models :
        LET c == _action_checker(a, M)
            g == _user_groups(u)
        IN  c.kind = "Or" =>
              LET j == Or_joins(c.checkers, g, M)
                  w == Or_where(c.checkers, u, g, M)
                  kept == SelectSeq([i \in DOMAIN c.checkers |->
                                        WhereOf(c.checkers[i], u, g, M).val],
                                    LAMBDA x : x.kind # "None")
              IN  /\ j.exc = "" =>
                       /\ \A i, k \in DOMAIN j.val : j.val[i] = j.val[k] => i = k
                       /\ \A i \in DOMAIN j.val : IsRel(j.val[i])
                       /\ Range(j.val) =
                            UNION {{p \in Range(Joins(c.checkers[i], g, M).val) : IsRel(p)} :
                                     i \in DOMAIN c.checkers}
                  /\ w.exc = "" =>
                       IF \E i \in DOMAIN kept : kept[i].kind = "True"
                       THEN w.val = Const("True")
                       ELSE /\ Len(kept) = 1 => w.val = kept[1]
                            /\ Len(kept) > 1 =>
                                 w.val = Where("or", {}, Prop("", ""), {}, kept)

\* C29: recursive_traverse stops as soon as a step yields no new ids: it
\* is never about to run another iteration after a step that met no id
\* that an earlier step had not met
C29_StopsWithoutNewIds ==
    tasks[1].pc = "while" => tasks[1].fresh

\* the dotted paths that walk an inverted schema from a model, up to the
\* number of models in length
DottedPaths(schema, M) ==
    LET names == UNION {schema[m] : m \in DOMAIN schema}
        at(p, n) == LET f[k \in 0..n] ==
                          IF k = 0 THEN M
                          ELSE relationships(f[k - 1])[p[k]].target
                    IN  f[n]
        walks(p) == \A k \in DOMAIN p :
                       /\ \A j \in 1..(k - 1) : at(p, j - 1) \in DOMAIN schema
                                                /\ p[j] \in schema[at(p, j - 1)]
                       /\ at(p, k - 1) \in DOMAIN schema
                       /\ p[k] \in schema[at(p, k - 1)]
    IN  {p \in UNION {[1..n -> names] : n \in 1..Cardinality(Models)} : walks(p)}

\* C30: every call of _action_checker returns a checker; a pair that had
\* none gets Global(action) | Path(action, all dotted paths from the model
\* over the inverted schema), stored under the pair; a pair that had one
\* gets the stored one; and no other entry of the registry changes
C30_DefaultSynthesis ==
    [][\A a \in QueryActions, M \in Models :
          (called' = "_action_checker" /\ _action_checker_call(a, M)) =>
              /\ ret'.kind = "checker"
              /\ actions'[M][a] = ret'.val
              /\ IF Stored(a, M)
                 THEN ret'.val = actions[M][a]
                 ELSE ret'.val = Or(<<Global(a), Path(a, DottedPaths(allowed[1], M))>>)
              /\ \A m \in DOMAIN actions : \A b \in DOMAIN actions[m] :
                    actions'[m][b] = actions[m][b]]_vars

====
